---- MODULE Spec2Model ----
(***************************************************************************)
(* A model of the orchestration core of the Agent Management Server (AMS): *)
(* the Supervisor's execution-order algorithm, the Communication Hub's     *)
(* session and message state, the Supervisor's active-session table and    *)
(* the driving loop of the execute endpoint, the Agent Registry and the    *)
(* configuration loader.                                                   *)
(*                                                                         *)
(* The specifications share the variables:                                 *)
(*   SpecOrder       determine_agent_execution_order on bounded inputs     *)
(*   SpecPriority    the priority computed for one agent                   *)
(*   SpecHub         the Communication Hub's operations on its sessions    *)
(*   SpecSupervisor  analyze_task, select_agents, create_collaboration     *)
(*   SpecRegistry    the registry's operations in any order                *)
(*   SpecConfig      Config.from_file under environments and files         *)
(*   Spec            create / execute / terminate requests served          *)
(*                   concurrently on one asyncio event loop                *)
(*   SpecApi         Spec with agents deleted, sessions deleted from the   *)
(*                   Hub, messages posted and the task status read         *)
(***************************************************************************)
EXTENDS Integers, Sequences, FiniteSets, TLC

VARIABLES
    agents,           \* SpecOrder: the list handed to determine_agent_execution_order
    result,           \* SpecOrder: what the call produced
    registry,         \* InMemoryAgentRegistry.agents: id -> AgentMetadata
    inserted,         \* history: the ids in the order register_agent first saw them
    sessions,         \* CommunicationHub.sessions: session id -> ChatSession
    active_sessions,  \* SupervisorManager.active_sessions: session id -> record
    next_uuid,        \* the source of fresh uuid4 values (session and message ids)
    requests,         \* the execute_task coroutines, one per request slot
    ret,              \* what the last completed operation returned or raised
    environ           \* os.environ: the AMS_ variables that are set

vars == <<agents, result, registry, inserted, sessions, active_sessions, next_uuid, requests,
         ret, environ>>

(***************************************************************************)
(* Bounds of the model.                                                    *)
(***************************************************************************)
MaxAgents == 3      \* agents in one input list / in the registry
MaxEdges == 2       \* depends_on entries over one input list
MaxUuids == 5       \* uuid4 values drawn (one per session, one per message)

(***************************************************************************)
(* Sequence helpers.                                                       *)
(***************************************************************************)
Range(s) == {s[i] : i \in DOMAIN s}

Min(a, b) == IF a <= b THEN a ELSE b

IsPrefix(s, t) == Len(s) <= Len(t) /\ \A i \in 1..Len(s) : s[i] = t[i]

RECURSIVE SelectSeqBy(_, _)
\* [x for x in s if x in keep]
SelectSeqBy(s, keep) ==
    IF s = <<>> THEN <<>>
    ELSE IF Head(s) \in keep THEN <<Head(s)>> \o SelectSeqBy(Tail(s), keep)
    ELSE SelectSeqBy(Tail(s), keep)

(***************************************************************************)
(* AgentMetadata, as far as the Supervisor reads it.  The text of name plus *)
(* description is held as the set of the role keywords that occur in it,   *)
(* which is all the substring tests can tell.                              *)
(*   id              AgentMetadata.id                                      *)
(*   roles           the role keywords occurring in name+description       *)
(*   capabilities    a list of [name, execution_priority], the latter      *)
(*                   being parameters["execution_priority"]                *)
(*   execution_priority   config["execution_priority"]: absent, an int, or *)
(*                   a value int() rejects                                 *)
(*   depends_on      config["depends_on"]: absent, one id, or a list       *)
(***************************************************************************)
Absent == [kind |-> "absent"]
Unparseable == [kind |-> "bad"]
IntValue(n) == [kind |-> "int", val |-> n]
StrDep(x) == [kind |-> "str", id |-> x]
ListDep(xs) == [kind |-> "list", ids |-> xs]

RoleNames == {"research", "strategist", "writer", "content", "evaluator", "reviewer"}

role_priorities ==
    [r \in RoleNames |->
        CASE r = "research" -> 1
          [] r = "strategist" -> 2
          [] r = "writer" -> 3
          [] r = "content" -> 3
          [] r = "evaluator" -> 4
          [] r = "reviewer" -> 4]

default_priority == 5

\* The keywords the capability scan looks for that occur in a capability name
\* (capability.name.lower(), substring tests), for the names the model uses.
KeywordsIn(capability_name) ==
    CASE capability_name = "research" -> {"research"}
      [] capability_name = "web_research" -> {"research"}
      [] capability_name = "content_strategy" -> {"strategy", "content"}
      [] capability_name = "content_creation" -> {"content"}
      [] capability_name = "evaluate_quality" -> {"evaluate"}
      [] capability_name = "writer_tools" -> {}
      [] OTHER -> {}

\* A pass that takes what the capability says, whatever the priority so far.
CapabilityStep_Overwriting(agent_priority, capability) ==
    LET found == KeywordsIn(capability.name)
    IN  IF "research" \in found THEN role_priorities["research"]
        ELSE IF "strategy" \in found THEN role_priorities["strategist"]
        ELSE IF "content" \in found THEN role_priorities["content"]
        ELSE IF "evaluate" \in found THEN role_priorities["evaluator"]
        ELSE IF capability.execution_priority.kind = "int"
            THEN capability.execution_priority.val
        ELSE agent_priority

\* One pass of the loop over agent.capabilities (the if/elif chain).
CapabilityStep(agent_priority, capability) ==
    LET found == KeywordsIn(capability.name)
    IN  IF "research" \in found /\ role_priorities["research"] < agent_priority
            THEN role_priorities["research"]
        ELSE IF "strategy" \in found /\ role_priorities["strategist"] < agent_priority
            THEN role_priorities["strategist"]
        ELSE IF "content" \in found /\ role_priorities["content"] < agent_priority
            THEN role_priorities["content"]
        ELSE IF "evaluate" \in found /\ role_priorities["evaluator"] < agent_priority
            THEN role_priorities["evaluator"]
        ELSE IF capability.execution_priority.kind = "int"
            THEN Min(agent_priority, capability.execution_priority.val)
        ELSE agent_priority

RECURSIVE CapabilityScan(_, _)
CapabilityScan(agent_priority, capabilities) ==
    IF capabilities = <<>> THEN agent_priority
    ELSE CapabilityScan(CapabilityStep(agent_priority, Head(capabilities)), Tail(capabilities))

RECURSIVE RoleScan(_, _)
\* for role, priority in role_priorities.items(): if role in agent_text: min(...)
RoleScan(agent_priority, roles) ==
    IF roles = {} THEN agent_priority
    ELSE LET r == CHOOSE x \in roles : TRUE
         IN RoleScan(Min(agent_priority, role_priorities[r]), roles \ {r})

\* A priority that lets the configured value compete with the scans.
AgentPriority_Competing(agent) ==
    LET scanned == CapabilityScan(RoleScan(default_priority, agent.roles), agent.capabilities)
    IN  IF agent.execution_priority.kind = "int"
            THEN Min(agent.execution_priority.val, scanned)
        ELSE scanned

\* The priority the first loop over the agents stores with each agent.
AgentPriority(agent) ==
    IF agent.execution_priority.kind = "int"
        THEN agent.execution_priority.val
    ELSE CapabilityScan(RoleScan(default_priority, agent.roles), agent.capabilities)

(***************************************************************************)
(* determine_agent_execution_order.                                        *)
(***************************************************************************)
\* agent_map = {agent.id: agent for agent in agents}: the last agent of an id wins.
agent_map(agent_list) ==
    [id \in {agent_list[i].id : i \in DOMAIN agent_list} |->
        agent_list[CHOOSE i \in DOMAIN agent_list :
            /\ agent_list[i].id = id
            /\ \A j \in DOMAIN agent_list : agent_list[j].id = id => j <= i]]

\* A first pass that forgets the string form of depends_on.
HasDependencyEntry_ListOnly(agent, ids) ==
    agent.depends_on.kind = "list"

\* Whether the first pass stores an entry of dependencies for this agent.
HasDependencyEntry(agent, ids) ==
    \/ agent.depends_on.kind = "list"
    \/ agent.depends_on.kind = "str" /\ agent.depends_on.id \in ids

\* An entry that leaves out the agent's own id.
DependencyEntry_NotItself(agent, ids) ==
    IF agent.depends_on.kind = "list"
        THEN SelectSeqBy(agent.depends_on.ids, ids \ {agent.id})
    ELSE IF agent.depends_on.id = agent.id THEN <<>>
    ELSE <<agent.depends_on.id>>

\* The entry stored: the listed ids that are in agent_map, or the one id.
DependencyEntry(agent, ids) ==
    IF agent.depends_on.kind = "list"
        THEN SelectSeqBy(agent.depends_on.ids, ids)
    ELSE <<agent.depends_on.id>>

\* dependencies: agent id -> the ids it depends on (first pass over the agents).
dependencies(agent_list) ==
    LET ids == DOMAIN agent_map(agent_list)
        writers(id) == {i \in DOMAIN agent_list :
                            agent_list[i].id = id /\ HasDependencyEntry(agent_list[i], ids)}
    IN  [id \in {x \in ids : writers(x) # {}} |->
            DependencyEntry(
                agent_list[CHOOSE i \in writers(id) : \A j \in writers(id) : j <= i],
                ids)]

\* A sort that places an agent before the agents of equal priority.
InsertByPriority_TiesFirst(placed, agent) ==
    LET k == Cardinality({i \in DOMAIN placed :
                              AgentPriority(placed[i]) < AgentPriority(agent)})
    IN  SubSeq(placed, 1, k) \o <<agent>> \o SubSeq(placed, k + 1, Len(placed))

\* list.sort inserts nothing and is stable: an agent goes behind every agent
\* already placed whose priority is not greater than its own.
InsertByPriority(placed, agent) ==
    LET k == Cardinality({i \in DOMAIN placed :
                              AgentPriority(placed[i]) <= AgentPriority(agent)})
    IN  SubSeq(placed, 1, k) \o <<agent>> \o SubSeq(placed, k + 1, Len(placed))

RECURSIVE SortByPriority(_, _)
SortByPriority(placed, rest) ==
    IF rest = <<>> THEN placed
    ELSE SortByPriority(InsertByPriority(placed, Head(rest)), Tail(rest))

\* prioritized_agents.sort(key=lambda x: x[0]); sorted_agents = [agent for _, agent in ...]
sorted_agents(agent_list) == SortByPriority(<<>>, agent_list)

\* The interpreter's recursion limit (1000 frames) is far above any agent count.
\* A walk deeper than the number of ids in agent_map is on a cycle, never returns
\* to a shallower frame and so ends in RecursionError: that depth is the limit here.
RecursionLimit(ctx) == Cardinality(DOMAIN ctx.agent_map)

\* The walk's state: processed (a set), agent_execution_order (a list), and
\* whether RecursionError was raised.
WalkStart == [processed |-> {}, order |-> <<>>, overflow |-> FALSE]

\* An emission that forgets processed.add(agent_id).
EmitAgent_Unmarked(agent_id, st, ctx) ==
    IF agent_id \notin st.processed /\ agent_id \in DOMAIN ctx.agent_map
        THEN [st EXCEPT !.order = Append(@, ctx.agent_map[agent_id])]
    ELSE st

\* if agent_id not in processed and agent_id in agent_map: append, add
EmitAgent(agent_id, st, ctx) ==
    IF agent_id \notin st.processed /\ agent_id \in DOMAIN ctx.agent_map
        THEN [st EXCEPT !.order = Append(@, ctx.agent_map[agent_id]),
                        !.processed = @ \cup {agent_id}]
    ELSE st

RECURSIVE add_with_dependencies(_, _, _, _)
RECURSIVE AddEachDependency(_, _, _, _)
add_with_dependencies(agent_id, st, ctx, depth) ==
    IF st.overflow THEN st
    ELSE IF depth > RecursionLimit(ctx) THEN [st EXCEPT !.overflow = TRUE]
    ELSE IF agent_id \in st.processed THEN st
    ELSE LET after == IF agent_id \in DOMAIN ctx.dependencies
                          THEN AddEachDependency(ctx.dependencies[agent_id], st, ctx, depth + 1)
                      ELSE st
         IN  IF after.overflow THEN after ELSE EmitAgent(agent_id, after, ctx)

\* for dep_id in dependencies[agent_id]: add_with_dependencies(dep_id)
AddEachDependency(dep_ids, st, ctx, depth) ==
    IF dep_ids = <<>> \/ st.overflow THEN st
    ELSE AddEachDependency(Tail(dep_ids),
                           add_with_dependencies(Head(dep_ids), st, ctx, depth), ctx, depth)

RECURSIVE WalkSorted_Backwards(_, _, _)
\* A loop that takes the sorted agents from the last to the first.
WalkSorted_Backwards(todo, st, ctx) ==
    IF todo = <<>> \/ st.overflow THEN st
    ELSE WalkSorted_Backwards(SubSeq(todo, 1, Len(todo) - 1),
                              add_with_dependencies(todo[Len(todo)].id, st, ctx, 1), ctx)

RECURSIVE WalkSorted(_, _, _)
\* for agent in sorted_agents: add_with_dependencies(agent.id)
WalkSorted(todo, st, ctx) ==
    IF todo = <<>> \/ st.overflow THEN st
    ELSE WalkSorted(Tail(todo), add_with_dependencies(Head(todo).id, st, ctx, 1), ctx)

RECURSIVE AppendRemaining(_, _)
\* for agent in sorted_agents: if agent.id not in processed: append, add
AppendRemaining(todo, st) ==
    IF todo = <<>> THEN st
    ELSE IF Head(todo).id \notin st.processed
        THEN AppendRemaining(Tail(todo),
                 [st EXCEPT !.order = Append(@, Head(todo)),
                            !.processed = @ \cup {Head(todo).id}])
    ELSE AppendRemaining(Tail(todo), st)

\* The state of the walk when the "Process each agent in priority order" loop ends.
DependencyWalk(agent_list) ==
    WalkSorted(sorted_agents(agent_list), WalkStart,
               [dependencies |-> dependencies(agent_list), agent_map |-> agent_map(agent_list)])

Returned(order) == [status |-> "returned", order |-> order]
RecursionError == [status |-> "RecursionError"]

determine_agent_execution_order(agent_list) ==
    LET deps == dependencies(agent_list)
        sorted == sorted_agents(agent_list)
        walked == DependencyWalk(agent_list)
        agent_execution_order ==
            IF DOMAIN deps # {} THEN AppendRemaining(sorted, walked).order ELSE sorted
    IN  IF DOMAIN deps # {} /\ walked.overflow THEN RecursionError
        ELSE IF agent_execution_order = <<>> THEN Returned(agent_list)
        ELSE Returned(agent_execution_order)

(***************************************************************************)
(* SpecOrder: the inputs of determine_agent_execution_order.               *)
(* Ids are opaque to the algorithm (dictionary keys, compared for equality *)
(* only), so the agent at input position i carries id i; an id above the   *)
(* length of the list names an agent that is not in the input.  The        *)
(* depends_on configuration of a list is drawn as a set of at most         *)
(* MaxEdges entries (agent, id it names) and a way of writing them down.   *)
(***************************************************************************)
AgentIds == 1..MaxAgents

NoCapability == <<>>
ContentCapability == <<[name |-> "content_creation", execution_priority |-> Absent]>>

\* name/description, capabilities and execution_priority of the agents drawn:
\* a researcher (priority 1), a content producer (3), an agent with an
\* unparseable execution_priority and no role (5).
OrderProfiles ==
    { [roles |-> {"research"}, capabilities |-> NoCapability, execution_priority |-> Absent],
      [roles |-> {}, capabilities |-> ContentCapability, execution_priority |-> Absent],
      [roles |-> {}, capabilities |-> NoCapability, execution_priority |-> Unparseable] }

RECURSIVE Ascending(_)
Ascending(S) ==
    IF S = {} THEN <<>>
    ELSE LET m == CHOOSE x \in S : \A y \in S : x <= y
         IN <<m>> \o Ascending(S \ {m})

Reverse(s) == [i \in 1..Len(s) |-> s[Len(s) + 1 - i]]

WriteModes == {"plain", "lists"}

\* config["depends_on"] of an agent naming the ids in targets:
\*   "plain"  one id as a string, several as a list in ascending order,
\*            none: no depends_on key
\*   "lists"  always a list, in descending order (an empty one when it names
\*            nothing)
WriteDependsOn(targets, mode) ==
    IF mode = "lists" THEN ListDep(Reverse(Ascending(targets)))
    ELSE IF targets = {} THEN Absent
    ELSE IF Cardinality(targets) = 1 THEN StrDep(CHOOSE x \in targets : TRUE)
    ELSE ListDep(Ascending(targets))

MakeAgent(id, profile, depends_on) ==
    [id |-> id, roles |-> profile.roles, capabilities |-> profile.capabilities,
     execution_priority |-> profile.execution_priority, depends_on |-> depends_on]

MakeAgents(n, profile, edges, mode) ==
    [i \in 1..n |-> MakeAgent(i, profile[i],
                              WriteDependsOn({e[2] : e \in {d \in edges : d[1] = i}}, mode))]

\* The depends_on entries drawn for a list of n agents.
EdgeSets(n) == {edges \in SUBSET ((1..n) \X AgentIds) : Cardinality(edges) <= MaxEdges}

NotRun == [status |-> "not run"]

NoSessions == <<>>
NoAgents == <<>>
NoRequests == <<>>
NoReturn == [op |-> "none"]
NoEnvironment == <<>>

\* The rest of the state, untouched by SpecOrder.
HubIdle ==
    /\ registry = NoAgents
    /\ inserted = <<>>
    /\ environ = NoEnvironment
    /\ sessions = NoSessions
    /\ active_sessions = NoSessions
    /\ next_uuid = 1
    /\ requests = NoRequests
    /\ ret = NoReturn

InitOrder ==
    /\ \E n \in 0..MaxAgents :
       \E edges \in EdgeSets(n) :
       \E profile \in [1..n -> OrderProfiles] :
       \E mode \in WriteModes :
           agents = MakeAgents(n, profile, edges, mode)
    /\ result = NotRun
    /\ HubIdle

\* await supervisor.determine_agent_execution_order(agents)
DetermineOrder ==
    /\ result = NotRun
    /\ result' = determine_agent_execution_order(agents)
    /\ UNCHANGED <<agents, environ, inserted, registry, sessions, active_sessions, next_uuid, requests, ret>>

NextOrder == DetermineOrder

SpecOrder == InitOrder /\ [][NextOrder]_vars

(***************************************************************************)
(* Properties of determine_agent_execution_order (SpecOrder).              *)
(***************************************************************************)
\* Whether the agent's depends_on configuration names the id.
NamesDependency(agent, id) ==
    \/ agent.depends_on.kind = "str" /\ agent.depends_on.id = id
    \/ agent.depends_on.kind = "list" /\ id \in Range(agent.depends_on.ids)

InputIds == {agents[i].id : i \in DOMAIN agents}

\* The depends_on edges A -> B between agents of the input.
DependsOnEdges ==
    {e \in InputIds \X InputIds :
        \E i \in DOMAIN agents : agents[i].id = e[1] /\ NamesDependency(agents[i], e[2])}

RECURSIVE TransitiveClosure(_)
TransitiveClosure(R) ==
    LET step == R \cup {<<pq[1][1], pq[2][2]>> : pq \in {x \in R \X R : x[1][2] = x[2][1]}}
    IN  IF step = R THEN R ELSE TransitiveClosure(step)

Acyclic == \A id \in InputIds : <<id, id>> \notin TransitiveClosure(DependsOnEdges)

DistinctIds == \A i, j \in DOMAIN agents : agents[i].id = agents[j].id => i = j

\* Whether id b occurs strictly before id a in the order.
OccursBefore(order, b, a) ==
    \E i, j \in DOMAIN order : i < j /\ order[i].id = b /\ order[j].id = a

DependenciesFirst ==
    /\ result.status = "returned"
    /\ \A e \in DependsOnEdges : OccursBefore(result.order, e[2], e[1])

\* C1 as the spec states it: for every input in which A's depends_on names B
\* and B is in the input, the call returns an order with B strictly before A.
C1_DependencyBeforeDependent_AnyInput ==
    (result # NotRun /\ DependsOnEdges # {}) => DependenciesFirst

\* C1, amended: when the agents have distinct ids and the depends_on relation
\* among them is acyclic, the call returns an order in which, for every agent A
\* whose depends_on names the id of an agent B of the input, B occurs strictly
\* before A, whatever the computed priorities of A and B are.
C1_DependencyBeforeDependent ==
    (result # NotRun /\ DistinctIds /\ Acyclic /\ DependsOnEdges # {}) => DependenciesFirst

\* C1's case: an agent whose priority alone would place it first depends on an
\* agent of the input, and the order returned has the dependency first.
C1_Witness ==
    /\ result.status = "returned"
    /\ \E i, j \in DOMAIN agents :
          /\ NamesDependency(agents[i], agents[j].id)
          /\ AgentPriority(agents[i]) < AgentPriority(agents[j])
          /\ OccursBefore(result.order, agents[j].id, agents[i].id)

NoDependsOn == \A i \in DOMAIN agents : agents[i].depends_on = Absent

\* The position in the input of the agent at position k of the order.
InputIndex(order, k) == CHOOSE i \in DOMAIN agents : agents[i] = order[k]

\* C2: for a non-empty input in which no agent declares depends_on, the order
\* returned holds the input's agents in ascending order of computed priority,
\* and agents of equal priority keep their relative order from the input.
C2_PrioritySortedStable ==
    (result # NotRun /\ agents # <<>> /\ NoDependsOn) =>
        /\ result.status = "returned"
        /\ Len(result.order) = Len(agents)
        /\ Range(result.order) = Range(agents)
        /\ \A k, l \in DOMAIN result.order :
              k < l =>
                 /\ AgentPriority(result.order[k]) <= AgentPriority(result.order[l])
                 /\ AgentPriority(result.order[k]) = AgentPriority(result.order[l])
                       => InputIndex(result.order, k) < InputIndex(result.order, l)

\* C2's case: an input without depends_on that has both a tie and a pair the
\* sort must swap.
C2_Witness ==
    /\ result.status = "returned"
    /\ NoDependsOn
    /\ \E i, j \in DOMAIN agents :
          i < j /\ AgentPriority(agents[i]) = AgentPriority(agents[j])
    /\ \E i, j \in DOMAIN agents :
          i < j /\ AgentPriority(agents[i]) > AgentPriority(agents[j])

\* C3: for agents with distinct ids and an acyclic depends_on relation the order
\* returned is a permutation of the input, and when the dependency walk runs it
\* reaches every agent, so that the safety-net loop appends nothing.
C3_PermutationOfInput ==
    (result # NotRun /\ DistinctIds /\ Acyclic) =>
        /\ result.status = "returned"
        /\ Len(result.order) = Len(agents)
        /\ \A i \in DOMAIN agents :
              Cardinality({k \in DOMAIN result.order : result.order[k] = agents[i]}) = 1
        /\ DOMAIN dependencies(agents) # {} =>
              /\ DependencyWalk(agents).processed = InputIds
              /\ DependencyWalk(agents).order = result.order

\* C3's case: three agents, a dependency the priorities contradict, and the
\* dependency walk taken.
C3_Witness ==
    /\ result.status = "returned"
    /\ Len(agents) = MaxAgents
    /\ Acyclic
    /\ DOMAIN dependencies(agents) # {}
    /\ \E e \in DependsOnEdges :
          \E i, j \in DOMAIN agents :
              /\ agents[i].id = e[1] /\ agents[j].id = e[2]
              /\ AgentPriority(agents[i]) < AgentPriority(agents[j])

\* Whether the agent of id b stands before the agent of id a in the
\* priority-sorted list.
SortedBefore(b, a) == OccursBefore(sorted_agents(agents), b, a)

\* C40: for an acyclic depends_on relation, whenever an agent Q occurs before
\* an agent P in the order returned although P stands before Q in the
\* priority-sorted list, Q is a direct or transitive dependency of P or of an
\* agent that stands before P in the priority-sorted list.
C40_DepartsOnlyForDependencies ==
    (result # NotRun /\ Acyclic) =>
        /\ result.status = "returned"
        /\ \A p, q \in InputIds :
              (SortedBefore(p, q) /\ OccursBefore(result.order, q, p)) =>
                  \E a \in InputIds :
                      /\ a = p \/ SortedBefore(a, p)
                      /\ <<a, q>> \in TransitiveClosure(DependsOnEdges)

\* C40's case: the order returned has an agent Q before an agent P that stands
\* before it in the priority-sorted list and does not depend on it, Q being
\* pulled forward by an agent that stands before P.
C40_Witness ==
    /\ result.status = "returned"
    /\ Acyclic
    /\ \E p, q \in InputIds :
          /\ SortedBefore(p, q)
          /\ OccursBefore(result.order, q, p)
          /\ <<p, q>> \notin TransitiveClosure(DependsOnEdges)

\* The ids that lie on a cycle of the depends_on relation.
OnCycle == {id \in InputIds : <<id, id>> \in TransitiveClosure(DependsOnEdges)}

\* C28: when the depends_on relation of the input has a cycle (an agent that
\* names itself included), the walk recurses until the interpreter raises
\* RecursionError: the call returns no order, and the walk has emitted no
\* agent of a cycle by then.
C28_CycleNeverReturns ==
    (result # NotRun /\ OnCycle # {}) =>
        /\ result = RecursionError
        /\ \A i \in DOMAIN DependencyWalk(agents).order :
              DependencyWalk(agents).order[i].id \notin OnCycle

\* The call has failed on two agents that depend on each other, after the
\* walk had emitted the third agent.
C28_Witness ==
    /\ result = RecursionError
    /\ Cardinality(OnCycle) = 2
    /\ Len(DependencyWalk(agents).order) = 1

(***************************************************************************)
(* SpecPriority: the priority computation applied to one agent.  The agent *)
(* drawn has some role keywords in its name and description, up to         *)
(* MaxCapabilities capabilities, each with or without an                   *)
(* execution_priority parameter, and a configuration with or without an    *)
(* execution_priority.                                                     *)
(***************************************************************************)
MaxCapabilities == 2

\* The role keywords that occur in the agent's name and description.
RoleTexts == {{}, {"writer"}, {"reviewer"}, {"research", "writer"}}

PriorityValues == {Absent, Unparseable, IntValue(0), IntValue(4)}

ConfigPriorityValues == {Absent, Unparseable, IntValue(2), IntValue(9)}

CapabilityNames == {"web_research", "content_strategy", "writer_tools", "evaluate_quality"}

CapabilitiesDrawn ==
    [name : CapabilityNames, execution_priority : PriorityValues]

CapabilityLists ==
    UNION {[1..n -> CapabilitiesDrawn] : n \in 0..MaxCapabilities}

PriorityOf(n) == [status |-> "priority", value |-> n]

InitPriority ==
    /\ \E roles \in RoleTexts, capabilities \in CapabilityLists,
          execution_priority \in ConfigPriorityValues :
          agents = <<MakeAgent(1, [roles |-> roles, capabilities |-> capabilities,
                                   execution_priority |-> execution_priority], Absent)>>
    /\ result = NotRun
    /\ HubIdle

\* One pass of "for agent in agents" in the priority loop.
AssignPriority ==
    /\ result = NotRun
    /\ result' = PriorityOf(AgentPriority(agents[1]))
    /\ UNCHANGED <<agents, environ, inserted, registry, sessions, active_sessions, next_uuid,
                   requests, ret>>

NextPriority == AssignPriority

SpecPriority == InitPriority /\ [][NextPriority]_vars

(***************************************************************************)
(* Properties of the priority computation (SpecPriority).                  *)
(***************************************************************************)
\* The role keywords of the table that occur in a capability name, for the
\* names the model uses.
RoleKeywordsIn(capability_name) ==
    CASE capability_name = "web_research" -> {"research"}
      [] capability_name = "content_strategy" -> {"content"}
      [] capability_name = "writer_tools" -> {"writer"}
      [] OTHER -> {}

\* All the numbers the agent's name, description and capabilities give.
PrioritySignals(agent) ==
    {default_priority}
        \cup {role_priorities[r] : r \in agent.roles}
        \cup UNION {{role_priorities[r] : r \in RoleKeywordsIn(agent.capabilities[k].name)} :
                        k \in DOMAIN agent.capabilities}
        \cup {agent.capabilities[k].execution_priority.val :
                 k \in {j \in DOMAIN agent.capabilities :
                            agent.capabilities[j].execution_priority.kind = "int"}}

\* C31: for an agent whose configuration has no parseable execution_priority,
\* the priority computed is the least of the default, the table priorities of
\* the role keywords in its name and description, the table priorities of the
\* role keywords in its capability names, and the parseable execution_priority
\* parameters of its capabilities.
C31_PriorityIsLeastSignal ==
    (result # NotRun /\ agents[1].execution_priority.kind # "int") =>
        /\ result.value \in PrioritySignals(agents[1])
        /\ \A n \in PrioritySignals(agents[1]) : result.value <= n

\* C32: when the configuration holds an execution_priority that int() accepts,
\* the priority is that integer, whatever the name, description and
\* capabilities say; when it holds one that int() rejects, the priority is
\* what it would be without the entry.
C32_ConfiguredPriorityVerbatim ==
    result # NotRun =>
        IF agents[1].execution_priority.kind = "int"
            THEN result.value = agents[1].execution_priority.val
        ELSE result.value = AgentPriority([agents[1] EXCEPT !.execution_priority = Absent])

\* A configured priority of 9 has been taken for an agent whose name and
\* capabilities would have given 1.
C32_Witness ==
    /\ result = PriorityOf(9)
    /\ "research" \in agents[1].roles
    /\ agents[1].capabilities # <<>>
    /\ AgentPriority([agents[1] EXCEPT !.execution_priority = Unparseable]) = 1

\* C33: without a configured priority, the priority after the capabilities is
\* not greater than the priority after the scan of name and description,
\* which is not greater than the default 5.
C33_CapabilitiesOnlyLower ==
    (result # NotRun /\ agents[1].execution_priority.kind # "int") =>
        /\ result.value <= RoleScan(default_priority, agents[1].roles)
        /\ RoleScan(default_priority, agents[1].roles) <= default_priority

\* Both stages have lowered the priority: below 5 by the name, further by a
\* capability.
C33_Witness ==
    /\ result # NotRun
    /\ agents[1].execution_priority.kind # "int"
    /\ result.value < RoleScan(default_priority, agents[1].roles)
    /\ RoleScan(default_priority, agents[1].roles) < default_priority

(***************************************************************************)
(* Strings with a length.  A message content is                            *)
(*   text    the parts of the text as it was first written                 *)
(*   kept    how many of its leading characters are still there            *)
(*   marker  0, or the N of the "... [truncated, N chars total]" that      *)
(*           follows the kept characters                                   *)
(***************************************************************************)
Text(parts, length) == [text |-> parts, kept |-> length, marker |-> 0]

RECURSIVE DecimalDigits(_)
DecimalDigits(n) == IF n < 10 THEN 1 ELSE 1 + DecimalDigits(n \div 10)

\* len(f"... [truncated, {n} chars total]")
MarkerLength(n) == 16 + DecimalDigits(n) + 13

\* len(content)
ContentLength(content) ==
    content.kept + (IF content.marker = 0 THEN 0 ELSE MarkerLength(content.marker))

max_chars_per_message == 5000

\* f"{content[:max_chars_per_message]}... [truncated, {len(content)} chars total]"
\* (a marker starts behind max_chars_per_message kept characters at the
\* earliest, so the slice holds characters of the text alone).
TruncatedContent(content) ==
    [text |-> content.text,
     kept |-> Min(content.kept, max_chars_per_message),
     marker |-> ContentLength(content)]

(***************************************************************************)
(* ChatMessage and ChatSession.  Timestamps (datetime.now()) are left out. *)
(* A metadata dictionary is a function from its keys to strings; None is   *)
(* the function with no key.  A framework of None is NoFramework.          *)
(***************************************************************************)
NoMetadata == [k \in {} |-> ""]
NoFramework == "None"

\* metadata[key] = value (a dictionary store)
WithKey(metadata, key, value) == (key :> value) @@ metadata

\* ChatMessage.__init__
ChatMessage(content, sender_id, sender_name, metadata, message_id, sender_role, sender_framework) ==
    [content |-> content,
     sender_id |-> sender_id,
     sender_name |-> IF sender_name = "" THEN sender_id ELSE sender_name,
     metadata |-> metadata,
     message_id |-> message_id,
     sender_role |-> sender_role,
     sender_framework |-> sender_framework]

\* ChatSession.__init__
ChatSession(session_id, metadata, task) ==
    [session_id |-> session_id, metadata |-> metadata, task |-> task,
     messages |-> <<>>, is_active |-> TRUE]

(***************************************************************************)
(* CommunicationHub.  An operation takes the hub (its sessions and the     *)
(* next fresh uuid) and gives the hub it leaves, whether it raised, and    *)
(* what it returned.                                                       *)
(***************************************************************************)
Hub == [sessions |-> sessions, next_uuid |-> next_uuid]

Return(hub, value) == [hub |-> hub, raised |-> FALSE, value |-> value]
Raise(hub, error) == [hub |-> hub, raised |-> TRUE, value |-> [error |-> error]]

\* A sender_role that looks at the sender_id alone.
SenderRole_ByIdOnly(sender_id, metadata) ==
    IF sender_id = "system" THEN "system" ELSE "agent"

\* The sender_role send_message derives.
SenderRole(sender_id, metadata) ==
    IF sender_id = "system" THEN "system"
    ELSE IF "type" \in DOMAIN metadata /\ metadata["type"] = "system" THEN "system"
    ELSE "agent"

\* The sender_framework send_message derives: read only in the elif branch
\* (sender is not "system" and the metadata has a "type").
SenderFramework(sender_id, metadata) ==
    IF sender_id # "system" /\ "type" \in DOMAIN metadata /\ "framework" \in DOMAIN metadata
        THEN metadata["framework"]
    ELSE NoFramework

\* message_metadata: the copy with sender_role and, if any, sender_framework.
MessageMetadata(sender_id, metadata) ==
    LET with_role == WithKey(metadata, "sender_role", SenderRole(sender_id, metadata))
    IN  IF SenderFramework(sender_id, metadata) # NoFramework
            THEN WithKey(with_role, "sender_framework", SenderFramework(sender_id, metadata))
        ELSE with_role

\* ChatSession.add_message
add_message(session, message) == [session EXCEPT !.messages = Append(@, message)]

\* A send_message that answers for a session the hub does not hold.
send_message_Lenient(hub, session_id, content, sender_id, sender_name, metadata) ==
    LET message == ChatMessage(content, sender_id, sender_name,
                               MessageMetadata(sender_id, metadata),
                               hub.next_uuid,
                               SenderRole(sender_id, metadata),
                               SenderFramework(sender_id, metadata))
    IN  IF session_id \notin DOMAIN hub.sessions THEN Return(hub, message)
        ELSE Return([sessions |-> [hub.sessions EXCEPT ![session_id] = add_message(@, message)],
                     next_uuid |-> hub.next_uuid + 1],
                    message)

\* CommunicationHub.send_message
send_message(hub, session_id, content, sender_id, sender_name, metadata) ==
    IF session_id \notin DOMAIN hub.sessions THEN Raise(hub, "ValueError: session not found")
    ELSE LET message == ChatMessage(content, sender_id, sender_name,
                                    MessageMetadata(sender_id, metadata),
                                    hub.next_uuid,
                                    SenderRole(sender_id, metadata),
                                    SenderFramework(sender_id, metadata))
         IN  Return([sessions |-> [hub.sessions EXCEPT ![session_id] = add_message(@, message)],
                     next_uuid |-> hub.next_uuid + 1],
                    message)

\* A create_session that opens a session for an empty list of agents too.
create_session_Unchecked(hub, task, agent_ids) ==
    LET session_id == hub.next_uuid
        opened == [sessions |-> (session_id :> ChatSession(session_id, [agents |-> agent_ids], task))
                                    @@ hub.sessions,
                   next_uuid |-> hub.next_uuid + 1]
        sent == send_message(opened, session_id,
                             Text(<<"Session started with task: ">> \o task.text, 27 + task.kept),
                             "system", "System",
                             [type |-> "system", action |-> "session_start"])
    IN  Return(sent.hub, session_id)

\* A create_session that opens the session and sends nothing.
create_session_NoKickoff(hub, task, agent_ids) ==
    IF agent_ids = <<>> THEN Raise(hub, "ValueError: empty agents list")
    ELSE Return([sessions |-> (hub.next_uuid :> ChatSession(hub.next_uuid, [agents |-> agent_ids], task))
                                  @@ hub.sessions,
                 next_uuid |-> hub.next_uuid + 1],
                hub.next_uuid)

\* CommunicationHub.create_session; agent_ids are the ids of the agents given.
create_session(hub, task, agent_ids) ==
    IF agent_ids = <<>> THEN Raise(hub, "ValueError: empty agents list")
    ELSE LET session_id == hub.next_uuid
             opened == [sessions |-> (session_id :> ChatSession(session_id, [agents |-> agent_ids], task))
                                         @@ hub.sessions,
                        next_uuid |-> hub.next_uuid + 1]
             sent == send_message(opened, session_id,
                                  Text(<<"Session started with task: ">> \o task.text, 27 + task.kept),
                                  "system", "System",
                                  [type |-> "system", action |-> "session_start"])
         IN  Return(sent.hub, session_id)

\* ChatMessage.to_dict (the timestamp left out)
to_dict(message) ==
    [message_id |-> message.message_id,
     content |-> message.content,
     sender_id |-> message.sender_id,
     sender_name |-> message.sender_name,
     sender_role |-> message.sender_role,
     sender_framework |-> message.sender_framework,
     metadata |-> message.metadata]

\* CommunicationHub.get_session_history
get_session_history(hub, session_id) ==
    IF session_id \notin DOMAIN hub.sessions THEN Raise(hub, "ValueError: session not found")
    ELSE Return(hub, [i \in DOMAIN hub.sessions[session_id].messages |->
                          to_dict(hub.sessions[session_id].messages[i])])

\* The exclude_sender_ids argument: not given (None), or a collection of ids.
NoExclude == [given |-> FALSE, ids |-> {}]
Exclude(ids) == [given |-> TRUE, ids |-> ids]

\* set(exclude_sender_ids) if exclude_sender_ids else None, and then
\* exclude_senders or set(["system"])
ExcludedSenders(exclude_sender_ids) ==
    IF exclude_sender_ids.given /\ exclude_sender_ids.ids # {} THEN exclude_sender_ids.ids
    ELSE {"system"}

\* The positions of the messages the transcript retains: those of senders not
\* excluded, and of them the last max_messages (0 stands for None).
RetainedPositions(messages, exclude_sender_ids, max_messages) ==
    LET filtered == {i \in DOMAIN messages :
                        messages[i].sender_id \notin ExcludedSenders(exclude_sender_ids)}
    IN  IF max_messages # 0 /\ Cardinality(filtered) > max_messages
            THEN {i \in filtered : Cardinality({j \in filtered : j > i}) < max_messages}
        ELSE filtered

\* The message as the formatting loop leaves it: msg.content is overwritten
\* when it is longer than max_chars_per_message.
AfterFormatting(message) ==
    IF ContentLength(message.content) > max_chars_per_message
        THEN [message EXCEPT !.content = TruncatedContent(@)]
    ELSE message

\* ChatMessage.format_for_prompt: "## Message from <name>[ [Framework: <fw>]]:\n<content>"
format_for_prompt(message, include_framework) ==
    [sender_name |-> message.sender_name,
     framework |-> IF ~include_framework THEN NoFramework
                   ELSE IF message.sender_framework # NoFramework THEN message.sender_framework
                   ELSE IF "framework" \in DOMAIN message.metadata THEN message.metadata["framework"]
                   ELSE NoFramework,
     content |-> message.content]

\* ChatSession.get_formatted_history through CommunicationHub.get_formatted_history:
\* the messages as the call leaves them, and the blocks of the transcript.
get_formatted_history(hub, session_id, exclude_sender_ids, include_framework, max_messages) ==
    IF session_id \notin DOMAIN hub.sessions THEN Raise(hub, "ValueError: session not found")
    ELSE LET messages == hub.sessions[session_id].messages
             retained == RetainedPositions(messages, exclude_sender_ids, max_messages)
             left == [i \in DOMAIN messages |->
                         IF i \in retained THEN AfterFormatting(messages[i]) ELSE messages[i]]
             blocks == [k \in 1..Cardinality(retained) |->
                          format_for_prompt(
                              left[CHOOSE i \in retained : Cardinality({j \in retained : j <= i}) = k],
                              include_framework)]
         IN  Return([hub EXCEPT !.sessions[session_id].messages = left], blocks)

\* CommunicationHub.terminate_session
terminate_session(hub, session_id) ==
    IF session_id \notin DOMAIN hub.sessions THEN Raise(hub, "ValueError: session not found")
    ELSE LET closed == [hub EXCEPT !.sessions[session_id].is_active = FALSE]
             sent == send_message(closed, session_id, Text(<<"Session terminated">>, 18),
                                  "system", "System",
                                  [type |-> "system", action |-> "session_terminate"])
         IN  Return(sent.hub, TRUE)

\* CommunicationHub.delete_session
delete_session(hub, session_id) ==
    IF session_id \notin DOMAIN hub.sessions THEN Return(hub, FALSE)
    ELSE Return([hub EXCEPT !.sessions = [id \in DOMAIN hub.sessions \ {session_id} |->
                                              hub.sessions[id]]],
                TRUE)

(***************************************************************************)
(* SpecHub: the Communication Hub alone, its operations called in any      *)
(* order with arguments from small sets.                                   *)
(***************************************************************************)
Tasks == {Text(<<"Summarise the findings">>, 22)}

ShortText(words) == Text(<<words>>, 2)
\* Contents of max_chars_per_message characters and of one more.
FullText(words) == Text(<<words>>, max_chars_per_message)
LongText(words) == Text(<<words>>, max_chars_per_message + 1)

\* The (content, sender_id, sender_name, metadata) a caller of send_message gives.
MessageInputs ==
    { [content |-> FullText("notes"), sender_id |-> "a1", sender_name |-> "",
       metadata |-> NoMetadata],
      [content |-> LongText("draft"), sender_id |-> "a1", sender_name |-> "Writer",
       metadata |-> [type |-> "agent_response", framework |-> "autogen"]],
      [content |-> ShortText("hi"), sender_id |-> "a2", sender_name |-> "Researcher",
       metadata |-> [type |-> "system"]],
      [content |-> ShortText("hi"), sender_id |-> "a2", sender_name |-> "Researcher",
       metadata |-> [framework |-> "crewai"]],
      [content |-> LongText("log"), sender_id |-> "system", sender_name |-> "System",
       metadata |-> [type |-> "agent_response", framework |-> "autogen"]] }

\* The (exclude_sender_ids, include_framework, max_messages) of a transcript call.
FormatInputs ==
    { [exclude |-> NoExclude, include_framework |-> TRUE, max_messages |-> 0],
      [exclude |-> Exclude({}), include_framework |-> TRUE, max_messages |-> 0],
      [exclude |-> Exclude({"a1"}), include_framework |-> FALSE, max_messages |-> 0],
      [exclude |-> Exclude({"a2"}), include_framework |-> TRUE, max_messages |-> 1] }

ParticipantLists == {<<>>, <<"a1">>, <<"a1", "a2">>}

\* A session id no uuid4 call of the model returns.
NeverDrawn == 0

\* The session ids the callers pass: the ids of the sessions held, the id given
\* to the last delete_session, and an id that was never drawn.
SessionIdArguments ==
    DOMAIN sessions \cup {NeverDrawn}
        \cup (IF ret.op = "delete_session" THEN {ret.session_id} ELSE {})

\* What the last call was and gave: its arguments are kept when it returned.
Called(op, session_id, args, outcome) ==
    [op |-> op, session_id |-> session_id,
     args |-> IF outcome.raised THEN NoMetadata ELSE args,
     raised |-> outcome.raised, value |-> outcome.value]

\* The hub an operation leaves, installed, when the uuids it drew are in bounds.
HubBecomes(outcome) ==
    /\ outcome.hub.next_uuid <= MaxUuids + 1
    /\ sessions' = outcome.hub.sessions
    /\ next_uuid' = outcome.hub.next_uuid

InitHub ==
    /\ agents = <<>>
    /\ result = NotRun
    /\ HubIdle

HubCreateSession ==
    \E task \in Tasks, agent_ids \in ParticipantLists :
        LET outcome == create_session(Hub, task, agent_ids)
        IN  /\ HubBecomes(outcome)
            /\ ret' = Called("create_session", outcome.value, [task |-> task, agents |-> agent_ids], outcome)
            /\ UNCHANGED <<agents, environ, inserted, result, registry, active_sessions, requests>>

HubSendMessage ==
    \E session_id \in SessionIdArguments, m \in MessageInputs :
        LET outcome == send_message(Hub, session_id, m.content, m.sender_id, m.sender_name, m.metadata)
        IN  /\ HubBecomes(outcome)
            /\ ret' = Called("send_message", session_id, m, outcome)
            /\ UNCHANGED <<agents, environ, inserted, result, registry, active_sessions, requests>>

HubGetSessionHistory ==
    \E session_id \in SessionIdArguments :
        LET outcome == get_session_history(Hub, session_id)
        IN  /\ HubBecomes(outcome)
            /\ ret' = Called("get_session_history", session_id, NoMetadata, outcome)
            /\ UNCHANGED <<agents, environ, inserted, result, registry, active_sessions, requests>>

HubGetFormattedHistory ==
    \E session_id \in SessionIdArguments, f \in FormatInputs :
        LET outcome == get_formatted_history(Hub, session_id, f.exclude, f.include_framework,
                                             f.max_messages)
        IN  /\ HubBecomes(outcome)
            /\ ret' = Called("get_formatted_history", session_id, f, outcome)
            /\ UNCHANGED <<agents, environ, inserted, result, registry, active_sessions, requests>>

HubTerminateSession ==
    \E session_id \in SessionIdArguments :
        LET outcome == terminate_session(Hub, session_id)
        IN  /\ HubBecomes(outcome)
            /\ ret' = Called("terminate_session", session_id, NoMetadata, outcome)
            /\ UNCHANGED <<agents, environ, inserted, result, registry, active_sessions, requests>>

HubDeleteSession ==
    \E session_id \in SessionIdArguments :
        LET outcome == delete_session(Hub, session_id)
        IN  /\ HubBecomes(outcome)
            /\ ret' = Called("delete_session", session_id, NoMetadata, outcome)
            /\ UNCHANGED <<agents, environ, inserted, result, registry, active_sessions, requests>>

NextHub ==
    \/ HubCreateSession
    \/ HubSendMessage
    \/ HubGetSessionHistory
    \/ HubGetFormattedHistory
    \/ HubTerminateSession
    \/ HubDeleteSession

SpecHub == InitHub /\ [][NextHub]_vars

(***************************************************************************)
(* Properties of the Communication Hub (SpecHub).                          *)
(***************************************************************************)
\* C10: under any sequence of Hub operations the message log of a session at a
\* later state extends its log at every earlier state: each message already
\* stored keeps its position, id, sender fields and content across every step,
\* the reads get_session_history and get_formatted_history included.
C10_LogOnlyGrows ==
    [][\A session_id \in DOMAIN sessions \cap DOMAIN sessions' :
          IsPrefix(sessions[session_id].messages, sessions'[session_id].messages)]_vars

\* The content and sender fields of the messages get_session_history returns.
HistoryFields(hub, session_id) ==
    LET history == get_session_history(hub, session_id).value
    IN  [i \in DOMAIN history |->
            [content |-> history[i].content,
             sender_id |-> history[i].sender_id,
             sender_name |-> history[i].sender_name]]

\* C11: get_session_history gives back what was appended: a send_message that
\* returned adds one entry behind those the history held, with the content,
\* sender_id and sender_name passed to it; the entries the history held keep
\* their place and these fields over every operation, reads included; and a
\* read or a failed call adds none.
C11_HistoryRoundTrip ==
    [][\A session_id \in DOMAIN sessions \cap DOMAIN sessions' :
          LET before == HistoryFields(Hub, session_id)
              after == HistoryFields(Hub', session_id)
          IN  /\ IsPrefix(before, after)
              /\ (ret'.op = "send_message" /\ ~ret'.raised /\ ret'.session_id = session_id) =>
                    /\ Len(after) = Len(before) + 1
                    /\ after[Len(after)] = [content |-> ret'.args.content,
                                            sender_id |-> ret'.args.sender_id,
                                            sender_name |-> ret'.args.sender_name]
              /\ (ret'.raised \/ ret'.op \in {"get_session_history", "get_formatted_history"}) =>
                    Len(after) = Len(before)]_vars

\* C12: at every state of the Hub, create_session with an empty participant
\* list raises the ValueError for an empty list and leaves the Hub as it was;
\* with one participant or more it returns the id of a session the Hub did not
\* hold, the other sessions are kept as they were, and the history of the new
\* session holds one message, the kickoff of sender and role "system".
C12_CreateSessionOutcome ==
    \A task \in Tasks, agent_ids \in ParticipantLists :
        LET outcome == create_session(Hub, task, agent_ids)
            history == get_session_history(outcome.hub, outcome.value).value
        IN  IF agent_ids = <<>>
                THEN /\ outcome.raised
                     /\ outcome.value = [error |-> "ValueError: empty agents list"]
                     /\ outcome.hub = Hub
            ELSE /\ ~outcome.raised
                 /\ outcome.value \notin DOMAIN sessions
                 /\ DOMAIN outcome.hub.sessions = DOMAIN sessions \cup {outcome.value}
                 /\ \A other \in DOMAIN sessions : outcome.hub.sessions[other] = sessions[other]
                 /\ outcome.hub.sessions[outcome.value].metadata = [agents |-> agent_ids]
                 /\ Len(history) = 1
                 /\ history[1].sender_id = "system"
                 /\ history[1].sender_role = "system"
                 /\ history[1].metadata["action"] = "session_start"

\* C12's case: create_session has just returned the id of a second session,
\* whose log is the kickoff alone, after a message was sent to the first.
C12_Witness ==
    /\ ret.op = "create_session"
    /\ ~ret.raised
    /\ Len(sessions[ret.value].messages) = 1
    /\ \E other \in DOMAIN sessions : other # ret.value /\ Len(sessions[other].messages) > 1

\* C13: at every state of the Hub, send_message to a session id the Hub does
\* not hold (never drawn, or removed by delete_session) raises the ValueError
\* for a session not found and leaves the Hub as it was.
C13_SendToUnknownSession ==
    \A session_id \in (0..(MaxUuids + 1)) \ DOMAIN sessions, m \in MessageInputs :
        LET outcome == send_message(Hub, session_id, m.content, m.sender_id, m.sender_name,
                                    m.metadata)
        IN  /\ outcome.raised
            /\ outcome.value = [error |-> "ValueError: session not found"]
            /\ outcome.hub = Hub

\* C13's case: send_message has just failed on the id of a session that
\* delete_session removed, while the Hub holds another session with messages.
C13_Witness ==
    /\ ret.op = "send_message"
    /\ ret.raised
    /\ ret.session_id # NeverDrawn
    /\ ret.session_id \notin DOMAIN sessions
    /\ \E other \in DOMAIN sessions : Len(sessions[other].messages) > 1

\* C14: the message send_message returns has sender_role "system" exactly when
\* the sender_id passed was "system", whatever the metadata passed.
C14_SystemRoleIffSystemSender ==
    (ret.op = "send_message" /\ ~ret.raised) =>
        (ret.value.sender_role = "system" <=> ret.args.sender_id = "system")

\* The contents appended to sessions: those the callers send and those of the
\* Hub's own kickoff and termination messages.
AppendedContents ==
    {m.content : m \in MessageInputs}
        \cup {Text(<<"Session started with task: ">> \o task.text, 27 + task.kept) : task \in Tasks}
        \cup {Text(<<"Session terminated">>, 18)}

\* The content as it was appended, of a content stored or rendered.
AsAppended(content) == CHOOSE c \in AppendedContents : c.text = content.text

\* C15: in every transcript get_formatted_history returns, a message appended
\* with more than max_chars_per_message characters is rendered as its first
\* max_chars_per_message characters and a marker with the length it was
\* appended with, and any other message as it was appended.
C15_TruncationNamesOriginalLength ==
    (ret.op = "get_formatted_history" /\ ~ret.raised) =>
        \A k \in DOMAIN ret.value :
            LET appended == AsAppended(ret.value[k].content)
            IN  IF appended.kept > max_chars_per_message
                    THEN ret.value[k].content =
                             [text |-> appended.text,
                              kept |-> max_chars_per_message,
                              marker |-> appended.kept]
                ELSE ret.value[k].content = appended

\* C16: terminate_session on a session that is already terminated returns
\* True and leaves the session as the first termination left it: still
\* inactive, its log with no further message.
C16_TerminateTwiceIsNoOp ==
    [][\A session_id \in DOMAIN sessions :
          (/\ ~sessions[session_id].is_active
           /\ ret'.op = "terminate_session"
           /\ ret'.session_id = session_id)
              => /\ ~ret'.raised
                 /\ ret'.value = TRUE
                 /\ sessions'[session_id] = sessions[session_id]]_vars

\* The last message of the session's log.
LastMessage(session_id) ==
    sessions[session_id].messages[Len(sessions[session_id].messages)]

\* C34: the message send_message stores and returns has sender_role system
\* when the sender_id is "system" or the metadata's type is "system", and
\* agent in every other case; its metadata holds the same role under
\* sender_role.
C34_RoleDerivedAndStoredTwice ==
    (ret.op = "send_message" /\ ~ret.raised) =>
        LET given == ret.args
            system == \/ given.sender_id = "system"
                      \/ "type" \in DOMAIN given.metadata /\ given.metadata["type"] = "system"
        IN  /\ ret.value.sender_role = IF system THEN "system" ELSE "agent"
            /\ "sender_role" \in DOMAIN ret.value.metadata
            /\ ret.value.metadata["sender_role"] = ret.value.sender_role
            /\ LastMessage(ret.session_id) = ret.value

\* An agent's message with metadata of type system has been stored with the
\* role system.
C34_Witness ==
    /\ ret.op = "send_message"
    /\ ~ret.raised
    /\ ret.args.sender_id # "system"
    /\ ret.value.sender_role = "system"
    /\ ret.value.metadata["sender_role"] = "system"

\* C35: the message send_message stores carries, as sender_framework, the
\* framework entry of the metadata given whenever there is one, whatever the
\* other keys and the sender_id, and no framework otherwise.
C35_FrameworkFromMetadata ==
    (ret.op = "send_message" /\ ~ret.raised) =>
        LastMessage(ret.session_id).sender_framework
            = IF "framework" \in DOMAIN ret.args.metadata
                  THEN ret.args.metadata["framework"]
              ELSE NoFramework

\* The positions of the messages of senders outside the exclusion set the
\* caller gave ({"system"} when none was given), cut to the last max_messages.
PositionsOutside(messages, exclude, max_messages) ==
    LET outside == {i \in DOMAIN messages :
                       messages[i].sender_id \notin
                           (IF exclude.given THEN exclude.ids ELSE {"system"})}
    IN  IF max_messages # 0 /\ Cardinality(outside) > max_messages
            THEN {i \in outside : Cardinality({j \in outside : j > i}) < max_messages}
        ELSE outside

\* C36: the transcript get_formatted_history returns renders, in insertion
\* order, exactly the messages whose sender_id is not in the exclusion set the
\* caller gave, the empty set included, and the default {"system"} is used
\* only when the caller gave no exclusion set.
C36_ExclusionSetAsGiven ==
    (ret.op = "get_formatted_history" /\ ~ret.raised) =>
        LET messages == sessions[ret.session_id].messages
            outside == PositionsOutside(messages, ret.args.exclude, ret.args.max_messages)
        IN  /\ Len(ret.value) = Cardinality(outside)
            /\ \A k \in DOMAIN ret.value :
                   ret.value[k] =
                       format_for_prompt(
                           messages[CHOOSE i \in outside :
                                        Cardinality({j \in outside : j <= i}) = k],
                           ret.args.include_framework)

\* C37: a send_message to a session that terminate_session has closed is
\* rejected, and the message log of the session does not grow.
C37_ClosedSessionRejectsMessages ==
    [][(/\ ret'.op = "send_message"
        /\ ret'.session_id \in DOMAIN sessions
        /\ ~sessions[ret'.session_id].is_active)
           => /\ ret'.raised
              /\ sessions' = sessions]_vars

\* C27: every session the hub holds has at least one message, and its first
\* message is the one create_session sent: from "system", of role system,
\* marked session_start, and naming the session's task.
C27_FirstMessageIsKickoff ==
    \A session_id \in DOMAIN sessions :
        LET messages == sessions[session_id].messages
        IN  /\ Len(messages) >= 1
            /\ messages[1].sender_id = "system"
            /\ messages[1].sender_name = "System"
            /\ messages[1].sender_role = "system"
            /\ messages[1].metadata["action"] = "session_start"
            /\ messages[1].content.text
                   = <<"Session started with task: ">> \o sessions[session_id].task.text

\* A terminated session that holds further messages behind the first.
C27_Witness ==
    /\ \E session_id \in DOMAIN sessions :
          /\ ~sessions[session_id].is_active
          /\ Len(sessions[session_id].messages) >= 3

(***************************************************************************)
(* The Agent Registry (InMemoryAgentRegistry).  self.agents is a dict: the *)
(* registry variable holds its values in insertion order.  On top of what  *)
(* the Supervisor reads, an agent of the registry carries name, framework  *)
(* and status.                                                             *)
(***************************************************************************)
RegisteredAgent(id, name, roles, framework, capability_names, depends_on) ==
    [id |-> id, name |-> name, roles |-> roles, framework |-> framework,
     capabilities |-> [i \in DOMAIN capability_names |->
                          [name |-> capability_names[i], execution_priority |-> Absent]],
     execution_priority |-> Absent, depends_on |-> depends_on, status |-> "ready"]

NotFound == [id |-> "None"]

\* An AgentMetadata built without a status: the dataclass default is OFFLINE.
AgentMetadata(id, name, roles, framework, capability_names, depends_on) ==
    [RegisteredAgent(id, name, roles, framework, capability_names, depends_on)
        EXCEPT !.status = "offline"]

\* The ids of the registry's records, in the iteration order of self.agents.
IdOrder(agent_registry) == [i \in DOMAIN agent_registry |-> agent_registry[i].id]

\* A register_agent that stores the record behind those held, whatever its id.
register_agent_Appending(agent_registry, agent) ==
    [registry |-> Append(agent_registry, agent), value |-> agent.id]

\* InMemoryAgentRegistry.register_agent for an agent that has an id (the
\* timestamps left out): self.agents[agent.id] = agent.  A key the dict holds
\* keeps its place; a new key goes behind the others.
register_agent(agent_registry, agent) ==
    [registry |-> IF \E i \in DOMAIN agent_registry : agent_registry[i].id = agent.id
                      THEN [i \in DOMAIN agent_registry |->
                               IF agent_registry[i].id = agent.id THEN agent
                               ELSE agent_registry[i]]
                  ELSE Append(agent_registry, agent),
     value |-> agent.id]

\* An update_agent_status that answers True for an id the registry lacks.
update_agent_status_Lenient(agent_registry, agent_id, status) ==
    [registry |-> [i \in DOMAIN agent_registry |->
                      IF agent_registry[i].id = agent_id
                          THEN [agent_registry[i] EXCEPT !.status = status]
                      ELSE agent_registry[i]],
     raised |-> FALSE, value |-> TRUE]

\* InMemoryAgentRegistry.update_agent_status
update_agent_status(agent_registry, agent_id, status) ==
    IF \A i \in DOMAIN agent_registry : agent_registry[i].id # agent_id
        THEN [registry |-> agent_registry, raised |-> TRUE,
              value |-> [error |-> "ValueError: agent not found"]]
    ELSE [registry |-> [i \in DOMAIN agent_registry |->
                           IF agent_registry[i].id = agent_id
                               THEN [agent_registry[i] EXCEPT !.status = status]
                           ELSE agent_registry[i]],
          raised |-> FALSE, value |-> TRUE]

\* InMemoryAgentRegistry.get_agent: self.agents.get(agent_id)
get_agent(agent_registry, agent_id) ==
    IF \E i \in DOMAIN agent_registry : agent_registry[i].id = agent_id
        THEN agent_registry[CHOOSE i \in DOMAIN agent_registry : agent_registry[i].id = agent_id]
    ELSE NotFound

\* A delete_agent that empties the registry when it finds the id.
delete_agent_Clearing(agent_registry, agent_id) ==
    [registry |-> IF \E i \in DOMAIN agent_registry : agent_registry[i].id = agent_id
                      THEN <<>> ELSE agent_registry,
     value |-> \E i \in DOMAIN agent_registry : agent_registry[i].id = agent_id]

\* InMemoryAgentRegistry.delete_agent: the registry left and the value returned.
delete_agent(agent_registry, agent_id) ==
    [registry |-> SelectSeq(agent_registry, LAMBDA agent : agent.id # agent_id),
     value |-> get_agent(agent_registry, agent_id) # NotFound]

\* A find_agents_by_capability that does not look at the status.
find_agents_by_capability_AnyStatus(agent_registry, capability_name) ==
    SelectSeq(agent_registry,
              LAMBDA agent : /\ agent.capabilities # <<>>
                             /\ \E i \in DOMAIN agent.capabilities :
                                   agent.capabilities[i].name = capability_name)

\* InMemoryAgentRegistry.find_agents_by_capability
find_agents_by_capability(agent_registry, capability_name) ==
    SelectSeq(agent_registry,
              LAMBDA agent : /\ agent.status = "ready"
                             /\ agent.capabilities # <<>>
                             /\ \E i \in DOMAIN agent.capabilities :
                                   agent.capabilities[i].name = capability_name)

(***************************************************************************)
(* SupervisorManager: analyze_task, select_agents, create_collaboration,   *)
(* terminate_collaboration.                                                *)
(***************************************************************************)
\* The keywords of the fallback analysis that occur in a task (substring tests
\* on task.lower()), for the tasks the model uses.
KeywordsOfTask(task) ==
    CASE task.text = <<"Research the data">> -> {"research", "data"}
      [] task.text = <<"Fix the code">> -> {"code"}
      [] OTHER -> {}

\* What the call to the LLM gives: a JSON object with a list of required
\* capabilities, a text that is not JSON and mentions some words, JSON that is
\* not an object (analysis.get then raises AttributeError), or an exception.
JsonAnswer(required_capabilities) == [kind |-> "json", required_capabilities |-> required_capabilities]
TextAnswer(words) == [kind |-> "text", words |-> words]
JsonNotAnObject == [kind |-> "not an object"]
LlmError == [kind |-> "error"]

\* The list written by the four tests of a fallback, in their order.
CapabilityList(code, text, calculation, data, order) ==
    LET named == (IF code THEN {"code_execution"} ELSE {})
                     \cup (IF text THEN {"text_generation"} ELSE {})
                     \cup (IF calculation THEN {"calculation"} ELSE {})
                     \cup (IF data THEN {"data_analysis"} ELSE {})
    IN  SelectSeq(order, LAMBDA c : c \in named)

\* An analyze_task without the default of text_generation.
analyze_task_NoDefault(task, llm) ==
    LET keywords == KeywordsOfTask(task)
    IN  [task |-> task,
         required_capabilities |->
             IF llm.kind = "json" THEN llm.required_capabilities
             ELSE IF llm.kind = "text"
                 THEN CapabilityList({"code", "programming"} \cap llm.words # {},
                                     {"write", "text"} \cap llm.words # {},
                                     {"math", "calculate"} \cap llm.words # {},
                                     {"data", "analyze"} \cap llm.words # {},
                                     <<"code_execution", "text_generation", "calculation",
                                       "data_analysis">>)
             ELSE CapabilityList({"code", "programming"} \cap keywords # {},
                                 {"writing", "research"} \cap keywords # {},
                                 "math" \in keywords,
                                 "data" \in keywords,
                                 <<"code_execution", "calculation", "text_generation",
                                   "data_analysis">>)]

\* SupervisorManager.analyze_task: the required_capabilities of the analysis.
analyze_task(task, llm) ==
    LET extracted ==
            IF llm.kind = "json" THEN llm.required_capabilities
            ELSE CapabilityList({"code", "programming"} \cap llm.words # {},
                                {"write", "text"} \cap llm.words # {},
                                {"math", "calculate"} \cap llm.words # {},
                                {"data", "analyze"} \cap llm.words # {},
                                <<"code_execution", "text_generation", "calculation", "data_analysis">>)
        keywords == KeywordsOfTask(task)
        fallback ==
            CapabilityList({"code", "programming"} \cap keywords # {},
                           {"writing", "research"} \cap keywords # {},
                           "math" \in keywords,
                           "data" \in keywords,
                           <<"code_execution", "calculation", "text_generation", "data_analysis">>)
    IN  IF llm.kind \in {"error", "not an object"}
            THEN [task |-> task,
                  required_capabilities |-> IF fallback = <<>> THEN <<"text_generation">> ELSE fallback]
        ELSE [task |-> task,
              required_capabilities |-> IF extracted = <<>> THEN <<"text_generation">> ELSE extracted]

RECURSIVE FoundForEach(_, _)
\* for capability in required_capabilities: selected_agents.extend(find_agents_by_capability(..))
FoundForEach(agent_registry, required_capabilities) ==
    IF required_capabilities = <<>> THEN <<>>
    ELSE find_agents_by_capability(agent_registry, Head(required_capabilities))
             \o FoundForEach(agent_registry, Tail(required_capabilities))

\* The agents found, each as often as it was found.
UniqueById_Every(selected_agents) ==
    [i \in DOMAIN selected_agents |-> [at |-> i, agent |-> selected_agents[i]]]

\* list({agent.id: agent for agent in selected_agents}.values()): an id keeps the
\* place of its first occurrence.
UniqueById(selected_agents) ==
    SelectSeq([i \in DOMAIN selected_agents |-> [at |-> i, agent |-> selected_agents[i]]],
              LAMBDA e : \A j \in 1..(e.at - 1) : selected_agents[j].id # e.agent.id)

\* SupervisorManager.select_agents
select_agents(agent_registry, task_analysis) ==
    LET unique == UniqueById(FoundForEach(agent_registry, task_analysis.required_capabilities))
    IN  [i \in DOMAIN unique |-> unique[i].agent]

\* The Supervisor with its hub: what create and terminate read and write.
Supervisor == [hub |-> Hub, active_sessions |-> active_sessions]

\* A create_collaboration that keeps no record of the session.
create_collaboration_Unrecorded(sup, selected_agents, task) ==
    LET agent_ids == [i \in DOMAIN selected_agents |-> selected_agents[i].id]
        created == create_session(sup.hub, task, agent_ids)
        sent == send_message(created.hub, created.value,
                             Text(<<"Task: ">> \o task.text
                                      \o <<"\n\nPlease collaborate to complete this task.">>,
                                  6 + task.kept + 43),
                             "system", "Supervisor",
                             [type |-> "system", task |-> task])
    IN  IF created.raised THEN [sup |-> sup, raised |-> TRUE, value |-> created.value]
        ELSE [sup |-> [hub |-> sent.hub, active_sessions |-> sup.active_sessions],
              raised |-> sent.raised, value |-> created.value]

\* SupervisorManager.create_collaboration
create_collaboration(sup, selected_agents, task) ==
    LET agent_ids == [i \in DOMAIN selected_agents |-> selected_agents[i].id]
        created == create_session(sup.hub, task, agent_ids)
        session_id == created.value
        stored == (session_id :> [task |-> task, agents |-> agent_ids, status |-> "active"])
                      @@ sup.active_sessions
        sent == send_message(created.hub, session_id,
                             Text(<<"Task: ">> \o task.text
                                      \o <<"\n\nPlease collaborate to complete this task.">>,
                                  6 + task.kept + 43),
                             "system", "Supervisor",
                             [type |-> "system", task |-> task])
    IN  IF created.raised THEN [sup |-> sup, raised |-> TRUE, value |-> created.value]
        ELSE [sup |-> [hub |-> sent.hub, active_sessions |-> stored],
              raised |-> sent.raised, value |-> session_id]

\* SupervisorManager.terminate_collaboration
terminate_collaboration(sup, session_id) ==
    IF session_id \notin DOMAIN sup.active_sessions
        THEN [sup |-> sup, raised |-> TRUE, value |-> [error |-> "ValueError: session not found"]]
    ELSE LET sent == send_message(sup.hub, session_id,
                         Text(<<"This collaboration session has been terminated by the supervisor.">>, 65),
                         "system", "Supervisor",
                         [type |-> "system", action |-> "terminate"])
             ended == terminate_session(sent.hub, session_id)
         IN  IF sent.raised THEN [sup |-> sup, raised |-> TRUE, value |-> sent.value]
             ELSE IF ended.raised
                 THEN [sup |-> [sup EXCEPT !.hub = ended.hub], raised |-> TRUE, value |-> ended.value]
             ELSE [sup |-> [hub |-> ended.hub,
                            active_sessions |-> [sup.active_sessions EXCEPT
                                                     ![session_id].status = "terminated"]],
                   raised |-> FALSE, value |-> TRUE]

(***************************************************************************)
(* SpecSupervisor: the Supervisor over a registry and its hub.  A task is  *)
(* analyzed with some answer of the LLM, agents are selected for the       *)
(* analysis, and a collaboration is created for the agents selected.       *)
(***************************************************************************)
\* The uuids the hub draws at most.
MaxIssued == 6

\* A registry of three agents, the third one busy, in its two insertion orders.
SupervisorAgents ==
    << RegisteredAgent("a1", "Writer", {"writer"}, "autogen", <<"text_generation">>, Absent),
       RegisteredAgent("a2", "Researcher", {"research"}, "crewai",
                       <<"data_analysis", "text_generation">>, Absent),
       [RegisteredAgent("a3", "Coder", {"coder"}, "autogen", <<"code_execution">>, Absent)
            EXCEPT !.status = "busy"] >>

SupervisorRegistries == {SupervisorAgents, Reverse(SupervisorAgents)}

SupervisorTasks ==
    {Text(<<"Research the data">>, 17), Text(<<"Fix the code">>, 12), Text(<<"Say hello">>, 9)}

AnalyzerAnswers ==
    { JsonAnswer(<<"text_generation">>),
      JsonAnswer(<<"data_analysis", "text_generation">>),
      JsonAnswer(<<"calculation">>),
      JsonAnswer(<<>>),
      TextAnswer({"analyze"}),
      TextAnswer({}),
      JsonNotAnObject,
      LlmError }

InitSupervisor ==
    /\ agents = <<>>
    /\ result = NotRun
    /\ registry \in SupervisorRegistries
    /\ inserted = IdOrder(registry)
    /\ environ = NoEnvironment
    /\ sessions = NoSessions
    /\ active_sessions = NoSessions
    /\ next_uuid = 1
    /\ requests = NoRequests
    /\ ret = NoReturn

\* analyze_task(task) with the LLM answering llm.
SupAnalyzeTask ==
    \E task \in SupervisorTasks, llm \in AnalyzerAnswers :
        /\ ret' = [op |-> "analyze_task", task |-> task, llm |-> llm,
                   value |-> analyze_task(task, llm)]
        /\ UNCHANGED <<agents, environ, inserted, result, registry, sessions, active_sessions, next_uuid, requests>>

\* select_agents(task_analysis) for the analysis just returned.
SupSelectAgents ==
    /\ ret.op = "analyze_task"
    /\ ret' = [op |-> "select_agents", task_analysis |-> ret.value,
               value |-> select_agents(registry, ret.value)]
    /\ UNCHANGED <<agents, environ, inserted, result, registry, sessions, active_sessions, next_uuid, requests>>

\* create_collaboration(agents, task) for the agents just selected.
SupCreateCollaboration ==
    /\ ret.op = "select_agents"
    /\ LET created == create_collaboration(Supervisor, ret.value, ret.task_analysis.task)
       IN  /\ created.sup.hub.next_uuid <= MaxIssued + 1
           /\ sessions' = created.sup.hub.sessions
           /\ next_uuid' = created.sup.hub.next_uuid
           /\ active_sessions' = created.sup.active_sessions
           /\ ret' = [op |-> "create_collaboration",
                      agents |-> [i \in DOMAIN ret.value |-> ret.value[i].id],
                      task |-> ret.task_analysis.task,
                      raised |-> created.raised, value |-> created.value]
    /\ UNCHANGED <<agents, environ, inserted, result, registry, requests>>

NextSupervisor ==
    \/ SupAnalyzeTask
    \/ SupSelectAgents
    \/ SupCreateCollaboration

SpecSupervisor == InitSupervisor /\ [][NextSupervisor]_vars

(***************************************************************************)
(* Properties of the Supervisor (SpecSupervisor).                          *)
(***************************************************************************)
\* C17: create_collaboration for a non-empty list of agents returns the id of a
\* session neither the Hub nor the Supervisor held; the Hub then holds it with
\* the agents' ids as participants, the Supervisor holds the record of that
\* task, those ids and status "active", the log of the session is the Hub's
\* kickoff followed by one system message of the Supervisor, and every other
\* session and record is as it was.
C17_CreateCollaborationFrame ==
    [][(ret'.op = "create_collaboration" /\ ret'.agents # <<>>) =>
          LET session_id == ret'.value
              log == sessions'[session_id].messages
          IN  /\ ~ret'.raised
              /\ session_id \notin DOMAIN sessions \cup DOMAIN active_sessions
              /\ DOMAIN sessions' = DOMAIN sessions \cup {session_id}
              /\ DOMAIN active_sessions' = DOMAIN active_sessions \cup {session_id}
              /\ sessions'[session_id].metadata = [agents |-> ret'.agents]
              /\ sessions'[session_id].is_active
              /\ active_sessions'[session_id] =
                     [task |-> ret'.task, agents |-> ret'.agents, status |-> "active"]
              /\ Len(log) = 2
              /\ log[1].sender_id = "system" /\ log[1].metadata["action"] = "session_start"
              /\ log[2].sender_id = "system" /\ log[2].sender_name = "Supervisor"
              /\ log[2].sender_role = "system" /\ log[2].metadata["type"] = "system"
              /\ \A other \in DOMAIN sessions : sessions'[other] = sessions[other]
              /\ \A other \in DOMAIN active_sessions :
                    active_sessions'[other] = active_sessions[other]]_vars

\* C17's case: create_collaboration has just returned the second session, for
\* two agents, beside the session of another task.
C17_Witness ==
    /\ ret.op = "create_collaboration"
    /\ ~ret.raised
    /\ Len(ret.agents) = 2
    /\ \E other \in DOMAIN active_sessions :
          other # ret.value /\ active_sessions[other].task # ret.task

\* C18: whatever the task and whatever the LLM gives (a list of capabilities,
\* an empty list, text that is not JSON, JSON that is not an object, an
\* exception), analyze_task returns at least one required capability.
C18_NeverNoCapability ==
    ret.op = "analyze_task" => ret.value.required_capabilities # <<>>

\* C18's case: the LLM gave an empty list of capabilities and analyze_task
\* returned the default.
C18_Witness ==
    /\ ret.op = "analyze_task"
    /\ ret.llm = JsonAnswer(<<>>)
    /\ ret.value.required_capabilities = <<"text_generation">>

\* C19: when the call to the LLM raises, analyze_task returns the one required
\* capability "text_generation", whatever the task.
C19_FailureGivesTextGeneration ==
    (ret.op = "analyze_task" /\ ret.llm = LlmError) =>
        ret.value.required_capabilities = <<"text_generation">>

\* The ids of the agents of a list.
IdsOf(agent_list) == {agent_list[i].id : i \in DOMAIN agent_list}

\* C20: select_agents returns each agent once; the agents returned are those
\* find_agents_by_capability gives for one of the required capabilities or
\* more; and each of them has one of the required capabilities.
C20_SelectionIsDeduplicatedUnion ==
    ret.op = "select_agents" =>
        LET required == Range(ret.task_analysis.required_capabilities)
        IN  /\ \A i, j \in DOMAIN ret.value : ret.value[i].id = ret.value[j].id => i = j
            /\ IdsOf(ret.value) =
                   UNION {IdsOf(find_agents_by_capability(registry, c)) : c \in required}
            /\ \A i \in DOMAIN ret.value :
                  /\ get_agent(registry, ret.value[i].id) = ret.value[i]
                  /\ \E k \in DOMAIN ret.value[i].capabilities :
                        ret.value[i].capabilities[k].name \in required

\* C20's case: two capabilities are required, one agent has both and another
\* agent has one of them, and two agents are returned.
C20_Witness ==
    /\ ret.op = "select_agents"
    /\ ret.task_analysis.required_capabilities = <<"data_analysis", "text_generation">>
    /\ Len(ret.value) = 2
    /\ Len(FoundForEach(registry, ret.task_analysis.required_capabilities)) = 3

\* The number of the required capabilities the agent has.
SatisfiedCount(agent, required) ==
    Cardinality({c \in required :
                    \E k \in DOMAIN agent.capabilities : agent.capabilities[k].name = c})

\* C21: in the list select_agents returns, an agent that satisfies more of the
\* required capabilities stands before an agent that satisfies fewer (the
\* ratio satisfied/required orders the agents of one call as the count does).
C21_RankedBySatisfiedCount ==
    ret.op = "select_agents" =>
        LET required == Range(ret.task_analysis.required_capabilities)
        IN  \A i, j \in DOMAIN ret.value :
                i < j => SatisfiedCount(ret.value[i], required)
                             >= SatisfiedCount(ret.value[j], required)

\* C22: when find_agents_by_capability gives no agent for any of the required
\* capabilities, select_agents returns all the agents of the registry.
C22_AllAgentsWhenNoneMatches ==
    (/\ ret.op = "select_agents"
     /\ \A c \in Range(ret.task_analysis.required_capabilities) :
           find_agents_by_capability(registry, c) = <<>>)
        => IdsOf(ret.value) = IdsOf(registry)

(***************************************************************************)
(* The registry on its own (SpecRegistry): callers register, update, get,  *)
(* delete and search in any order.  No method of InMemoryAgentRegistry     *)
(* awaits anything, so on the event loop each call runs from its first     *)
(* line to its return before another call starts: a step is a whole call,  *)
(* and the behaviours are the interleavings of the callers.                *)
(***************************************************************************)
\* The two agents of the example, built from id, capabilities and depends_on.
ScenarioR1 == AgentMetadata("r1", "r1", {}, "autogen", <<"research">>, Absent)
ScenarioW1 == AgentMetadata("w1", "w1", {}, "autogen", <<"text_generation">>, StrDep("r1"))

\* The records handed to register_agent.
RegistryRecords ==
    {ScenarioR1, [ScenarioR1 EXCEPT !.status = "ready"],
     ScenarioW1, [ScenarioW1 EXCEPT !.status = "ready"],
     RegisteredAgent("r1", "Idle", {}, "autogen", <<>>, Absent),
     RegisteredAgent("w1", "Writer", {"writer"}, "crewai",
                     <<"research", "text_generation">>, Absent)}

\* The ids the callers pass; no record has the last one.
RegistryIds == {"r1", "w1", "zz"}

StatusArguments == {"ready", "busy", "error"}

CapabilityArguments == {"research", "text_generation", "Research", "text"}

RegistryCall(op, agent_id, args, raised, value) ==
    [op |-> op, agent_id |-> agent_id, args |-> args, raised |-> raised, value |-> value]

InitRegistry ==
    /\ agents = <<>>
    /\ result = NotRun
    /\ HubIdle

RegRegisterAgent ==
    /\ \E agent \in RegistryRecords :
          LET out == register_agent(registry, agent)
          IN  /\ registry' = out.registry
              /\ inserted' = IF agent.id \in Range(inserted) THEN inserted
                              ELSE Append(inserted, agent.id)
              /\ ret' = RegistryCall("register_agent", agent.id, agent, FALSE, out.value)
    /\ UNCHANGED <<agents, environ, result, sessions, active_sessions, next_uuid, requests>>

RegUpdateAgentStatus ==
    /\ \E agent_id \in RegistryIds, status \in StatusArguments :
          LET out == update_agent_status(registry, agent_id, status)
          IN  /\ registry' = out.registry
              /\ ret' = RegistryCall("update_agent_status", agent_id, status,
                                     out.raised, out.value)
    /\ UNCHANGED <<agents, environ, inserted, result, sessions, active_sessions, next_uuid, requests>>

RegGetAgent ==
    /\ \E agent_id \in RegistryIds :
          ret' = RegistryCall("get_agent", agent_id, agent_id, FALSE,
                              get_agent(registry, agent_id))
    /\ UNCHANGED <<agents, environ, inserted, result, registry, sessions, active_sessions, next_uuid, requests>>

RegDeleteAgent ==
    /\ \E agent_id \in RegistryIds :
          LET out == delete_agent(registry, agent_id)
          IN  /\ registry' = out.registry
              /\ ret' = RegistryCall("delete_agent", agent_id, agent_id, FALSE, out.value)
    /\ UNCHANGED <<agents, environ, inserted, result, sessions, active_sessions, next_uuid, requests>>

RegFindAgentsByCapability ==
    /\ \E capability_name \in CapabilityArguments :
          ret' = RegistryCall("find_agents_by_capability", "None", capability_name, FALSE,
                              find_agents_by_capability(registry, capability_name))
    /\ UNCHANGED <<agents, environ, inserted, result, registry, sessions, active_sessions, next_uuid, requests>>

NextRegistry ==
    \/ RegRegisterAgent
    \/ RegUpdateAgentStatus
    \/ RegGetAgent
    \/ RegDeleteAgent
    \/ RegFindAgentsByCapability

SpecRegistry == InitRegistry /\ [][NextRegistry]_vars

(***************************************************************************)
(* Properties of the registry (SpecRegistry).                              *)
(***************************************************************************)
\* C23: once r1 (capability research) and w1 (capability text_generation,
\* depends_on r1) are registered as given, select_agents for the capabilities
\* research and text_generation returns both, and
\* determine_agent_execution_order on them returns r1 before w1.
C23_ScenarioSelectsBothInOrder ==
    registry = <<ScenarioR1, ScenarioW1>> =>
        LET selected == select_agents(registry,
                            [required_capabilities |-> <<"research", "text_generation">>])
        IN  /\ IdsOf(selected) = {"r1", "w1"}
            /\ determine_agent_execution_order(selected)
                   = Returned(<<ScenarioR1, ScenarioW1>>)

HasCapability(agent, capability_name) ==
    \E k \in DOMAIN agent.capabilities : agent.capabilities[k].name = capability_name

PositionIn(seq, x) == CHOOSE i \in DOMAIN seq : seq[i] = x

\* The list holds the agents of the registry that are ready and have a
\* capability of exactly this name, each once, and no one else.
ExactlyReadyHolders(found, agent_registry, capability_name) ==
    /\ \A j \in DOMAIN found : found[j] \in Range(agent_registry)
    /\ \A i \in DOMAIN agent_registry :
          Cardinality({j \in DOMAIN found : found[j] = agent_registry[i]})
              = IF /\ agent_registry[i].status = "ready"
                   /\ HasCapability(agent_registry[i], capability_name)
                    THEN 1 ELSE 0

\* C24 as stated: find_agents_by_capability returns exactly the ready agents
\* with a capability of that name, each once, in the order in which their ids
\* were first inserted into the registry.
C24_FoundInFirstInsertionOrder ==
    ret.op = "find_agents_by_capability" =>
        /\ ExactlyReadyHolders(ret.value, registry, ret.args)
        /\ \A i, j \in DOMAIN ret.value :
              i < j => PositionIn(inserted, ret.value[i].id)
                           < PositionIn(inserted, ret.value[j].id)

\* C24, amended: find_agents_by_capability returns exactly the ready agents
\* with a capability of that name, each once, in the order the registry holds
\* them; and the registry holds its ids in the order of their insertion, where
\* registering an id that is present keeps its place, deleting an id removes
\* it from the order, and an id registered again after its deletion goes last.
C24_FoundInRegistryOrder ==
    [][/\ ret'.op = "find_agents_by_capability" =>
              /\ ExactlyReadyHolders(ret'.value, registry, ret'.args)
              /\ \A i, j \in DOMAIN ret'.value :
                    i < j => PositionIn(IdOrder(registry), ret'.value[i].id)
                                 < PositionIn(IdOrder(registry), ret'.value[j].id)
       /\ ret'.op = "register_agent" =>
              IdOrder(registry') = IF ret'.agent_id \in IdsOf(registry)
                                       THEN IdOrder(registry)
                                   ELSE Append(IdOrder(registry), ret'.agent_id)
       /\ ret'.op = "delete_agent" =>
              IdOrder(registry') = SelectSeq(IdOrder(registry),
                                             LAMBDA id : id # ret'.agent_id)
       /\ ret'.op \in {"update_agent_status", "get_agent", "find_agents_by_capability"} =>
              IdOrder(registry') = IdOrder(registry)]_vars

\* A search that returns w1 before r1, r1 having been deleted and registered
\* again after w1 was registered.
C24_Witness ==
    /\ ret.op = "find_agents_by_capability"
    /\ IdOrder(ret.value) = <<"w1", "r1">>
    /\ inserted = <<"r1", "w1">>

C29_CallsAreWholeAndPerId ==
    [][LET id == ret'.agent_id
           held == get_agent(registry, id)
       IN  /\ \A other \in IdsOf(registry) \cup IdsOf(registry') :
                  other # id => get_agent(registry', other) = get_agent(registry, other)
           /\ ret'.op = "register_agent" => get_agent(registry', id) = ret'.args
           /\ ret'.op = "update_agent_status" =>
                  get_agent(registry', id)
                      = IF held = NotFound THEN NotFound
                        ELSE [held EXCEPT !.status = ret'.args]
           /\ ret'.op = "delete_agent" => get_agent(registry', id) = NotFound
           /\ ret'.op \in {"get_agent", "find_agents_by_capability"} =>
                  registry' = registry]_vars

\* A delete of one id has left the other id's record, whose status an earlier
\* update had set, in the registry.
C29_Witness ==
    /\ ret.op = "delete_agent"
    /\ ret.value = TRUE
    /\ Len(registry) = 1
    /\ registry[1].status = "error"

(***************************************************************************)
(* Configuration (config.py).  environ holds the AMS_ variables that are   *)
(* set, as a function from their names to their values.  The module builds *)
(* Config() when it is imported, so the values of a running program are    *)
(* values the default factories accept, and nothing in the program writes  *)
(* the environment afterwards.                                             *)
(*                                                                         *)
(* A configuration file is missing, a directory (open raises), malformed   *)
(* (yaml.safe_load raises) or loaded; what a loaded file holds is null, a  *)
(* sequence, a scalar, or a mapping from keys to such values.              *)
(***************************************************************************)
\* os.getenv(name, default)
Getenv(name, default) == IF name \in DOMAIN environ THEN environ[name] ELSE default

\* int(text), for the texts the defaults and the environments hold
ParseInt(text) ==
    CASE text = "8000" -> 8000
      [] text = "9000" -> 9000
      [] text = "1440" -> 1440
      [] text = "5" -> 5
      [] text = "1" -> 1
      [] text = "0" -> 0

\* text.lower() in ("true", "1", "yes"), for the texts the environments hold
ParseBool(text) == text \in {"true", "True", "1", "yes"}

\* A dataclass call with keyword arguments: a field that is given takes the
\* argument as it is, any other field the value of its default factory.
WithArguments(defaults, kwargs) ==
    [f \in DOMAIN defaults |-> IF f \in DOMAIN kwargs THEN kwargs[f] ELSE defaults[f]]

ServerConfig(kwargs) ==
    WithArguments([host |-> Getenv("AMS_HOST", "0.0.0.0"),
                   port |-> ParseInt(Getenv("AMS_PORT", "8000")),
                   reload |-> ParseBool(Getenv("AMS_RELOAD", "false")),
                   log_level |-> Getenv("AMS_LOG_LEVEL", "info"),
                   workers |-> ParseInt(Getenv("AMS_WORKERS", "1"))], kwargs)

DatabaseConfig(kwargs) ==
    WithArguments([url |-> Getenv("AMS_DATABASE_URL", "sqlite:///ams.db"),
                   echo |-> ParseBool(Getenv("AMS_DATABASE_ECHO", "false")),
                   pool_size |-> ParseInt(Getenv("AMS_DATABASE_POOL_SIZE", "5"))], kwargs)

SecurityConfig(kwargs) ==
    WithArguments([secret_key |-> Getenv("AMS_SECRET_KEY", "supersecretkey"),
                   token_expiration |-> ParseInt(Getenv("AMS_TOKEN_EXPIRATION", "1440")),
                   enable_auth |-> ParseBool(Getenv("AMS_ENABLE_AUTH", "false"))], kwargs)

\* temperature is kept as the text float() reads; max_tokens 0 stands for None.
LLMConfig(kwargs) ==
    WithArguments([provider |-> Getenv("AMS_LLM_PROVIDER", "openai"),
                   api_key |-> Getenv("AMS_LLM_API_KEY", "None"),
                   default_model |-> Getenv("AMS_LLM_DEFAULT_MODEL", "gpt-4"),
                   temperature |-> Getenv("AMS_LLM_TEMPERATURE", "0.7"),
                   max_tokens |-> ParseInt(Getenv("AMS_LLM_MAX_TOKENS", "0"))], kwargs)

NoArguments == <<>>

\* Config(): every section from its default factory.
Config ==
    [server |-> ServerConfig(NoArguments), database |-> DatabaseConfig(NoArguments),
     security |-> SecurityConfig(NoArguments), llm |-> LLMConfig(NoArguments)]

YamlNull == [yaml |-> "null"]
YamlSequence == [yaml |-> "sequence"]
YamlMapping(items) == [yaml |-> "mapping", items |-> items]

\* config_data.get(section, {}) and the ** of the call: the keyword arguments,
\* or the error raised on the way (config_data has no get; the value is no
\* mapping; a key is no field of the dataclass).
KeywordArguments(config_data, section, fields) ==
    IF config_data.yaml # "mapping" THEN [raised |-> TRUE]
    ELSE IF section \notin DOMAIN config_data.items THEN [raised |-> FALSE, kwargs |-> NoArguments]
    ELSE IF config_data.items[section].yaml # "mapping" THEN [raised |-> TRUE]
    ELSE IF ~(DOMAIN config_data.items[section].items \subseteq fields) THEN [raised |-> TRUE]
    ELSE [raised |-> FALSE, kwargs |-> config_data.items[section].items]

\* A from_file that lets the error of a file it cannot load pass to its caller.
from_file_Raising(file) ==
    IF file.kind = "missing" THEN [raised |-> FALSE, value |-> Config]
    ELSE IF file.kind # "loaded" THEN [raised |-> TRUE, value |-> [error |-> file.kind]]
    ELSE LET server == KeywordArguments(file.data, "server", DOMAIN Config.server)
             database == KeywordArguments(file.data, "database", DOMAIN Config.database)
             security == KeywordArguments(file.data, "security", DOMAIN Config.security)
             llm == KeywordArguments(file.data, "llm", DOMAIN Config.llm)
         IN  IF server.raised \/ database.raised \/ security.raised \/ llm.raised
                 THEN [raised |-> TRUE, value |-> [error |-> "TypeError"]]
             ELSE [raised |-> FALSE,
                   value |-> [server |-> ServerConfig(server.kwargs),
                              database |-> DatabaseConfig(database.kwargs),
                              security |-> SecurityConfig(security.kwargs),
                              llm |-> LLMConfig(llm.kwargs)]]

\* Config.from_file
from_file(file) ==
    IF file.kind = "missing" THEN [raised |-> FALSE, value |-> Config]
    ELSE IF file.kind # "loaded" THEN [raised |-> FALSE, value |-> Config]
    ELSE LET server == KeywordArguments(file.data, "server", DOMAIN Config.server)
             database == KeywordArguments(file.data, "database", DOMAIN Config.database)
             security == KeywordArguments(file.data, "security", DOMAIN Config.security)
             llm == KeywordArguments(file.data, "llm", DOMAIN Config.llm)
         IN  IF server.raised \/ database.raised \/ security.raised \/ llm.raised
                 THEN [raised |-> FALSE, value |-> Config]
             ELSE [raised |-> FALSE,
                   value |-> [server |-> ServerConfig(server.kwargs),
                              database |-> DatabaseConfig(database.kwargs),
                              security |-> SecurityConfig(security.kwargs),
                              llm |-> LLMConfig(llm.kwargs)]]

(***************************************************************************)
(* SpecConfig: Config.from_file under the environments and the files of    *)
(* the model.                                                              *)
(***************************************************************************)
EnvironmentSettings ==
    [AMS_HOST |-> "127.0.0.1", AMS_PORT |-> "9000", AMS_RELOAD |-> "True",
     AMS_DATABASE_URL |-> "postgresql://db/ams"]

Environments ==
    {[name \in set |-> EnvironmentSettings[name]] : set \in SUBSET DOMAIN EnvironmentSettings}

LoadedFile(data) == [kind |-> "loaded", data |-> data]

ConfigFiles ==
    {[kind |-> "missing"], [kind |-> "directory"], [kind |-> "malformed"],
     LoadedFile(YamlNull),
     LoadedFile(YamlSequence),
     LoadedFile(YamlMapping(<<>>)),
     LoadedFile(YamlMapping([server |-> YamlNull])),
     LoadedFile(YamlMapping([server |-> YamlMapping([host |-> "localhost", hostname |-> "ams"])])),
     LoadedFile(YamlMapping([database |-> YamlMapping([url |-> "postgresql://file/db"]),
                             llm |-> YamlSequence])),
     LoadedFile(YamlMapping([server |-> YamlMapping([host |-> "localhost", port |-> 8080,
                                                     reload |-> TRUE, log_level |-> "warning",
                                                     workers |-> 3]),
                             database |-> YamlMapping([url |-> "postgresql://file/db",
                                                       echo |-> TRUE, pool_size |-> 10])])),
     LoadedFile(YamlMapping([server |-> YamlMapping([port |-> 8080])])),
     LoadedFile(YamlMapping([logging |-> YamlNull,
                             security |-> YamlMapping([enable_auth |-> TRUE])]))}

InitConfig ==
    /\ agents = <<>>
    /\ result = NotRun
    /\ registry = NoAgents
    /\ inserted = <<>>
    /\ sessions = NoSessions
    /\ active_sessions = NoSessions
    /\ next_uuid = 1
    /\ requests = NoRequests
    /\ ret = NoReturn
    /\ environ \in Environments

\* Config.from_file(file_path), the path leading to one of the files
ConfigFromFile ==
    /\ \E file \in ConfigFiles :
          ret' = [op |-> "from_file", file |-> file,
                  raised |-> from_file(file).raised, value |-> from_file(file).value]
    /\ UNCHANGED <<agents, environ, inserted, result, registry, sessions, active_sessions,
                   next_uuid, requests>>

NextConfig == ConfigFromFile

SpecConfig == InitConfig /\ [][NextConfig]_vars

(***************************************************************************)
(* Properties of Config.from_file (SpecConfig).                            *)
(***************************************************************************)
\* Whether from_file cannot load the file although it exists: it cannot be
\* opened or parsed, it holds no mapping, or one of the four sections is no
\* mapping of fields of its dataclass.
SectionFields ==
    [server |-> {"host", "port", "reload", "log_level", "workers"},
     database |-> {"url", "echo", "pool_size"},
     security |-> {"secret_key", "token_expiration", "enable_auth"},
     llm |-> {"provider", "api_key", "default_model", "temperature", "max_tokens"}]

CannotBeLoaded(file) ==
    \/ file.kind \in {"directory", "malformed"}
    \/ file.kind = "loaded" /\ file.data.yaml # "mapping"
    \/ /\ file.kind = "loaded" /\ file.data.yaml = "mapping"
       /\ \E section \in DOMAIN SectionFields \cap DOMAIN file.data.items :
             \/ file.data.items[section].yaml # "mapping"
             \/ ~(DOMAIN file.data.items[section].items \subseteq SectionFields[section])

\* C30 as stated: for a file that is missing or cannot be loaded from_file
\* does not fail and returns the default configuration, whose server has
\* host 0.0.0.0 and port 8000.
C30_FallbackIsHost0000Port8000 ==
    (/\ ret.op = "from_file"
     /\ ret.file.kind = "missing" \/ CannotBeLoaded(ret.file))
        => /\ ~ret.raised
           /\ ret.value = Config
           /\ ret.value.server.host = "0.0.0.0"
           /\ ret.value.server.port = 8000

\* C30, amended: for a file that is missing or cannot be loaded from_file
\* does not fail and returns the default configuration Config(): every field
\* has the value of its AMS_ environment variable where that is set and its
\* built-in default otherwise, so the server has host 0.0.0.0 when AMS_HOST
\* is not set and port 8000 when AMS_PORT is not set.
C30_FallbackIsDefaultConfig ==
    (/\ ret.op = "from_file"
     /\ ret.file.kind = "missing" \/ CannotBeLoaded(ret.file))
        => /\ ~ret.raised
           /\ ret.value = Config
           /\ "AMS_HOST" \notin DOMAIN environ => ret.value.server.host = "0.0.0.0"
           /\ "AMS_HOST" \in DOMAIN environ => ret.value.server.host = environ["AMS_HOST"]
           /\ "AMS_PORT" \notin DOMAIN environ => ret.value.server.port = 8000
           /\ "AMS_PORT" \in DOMAIN environ => ret.value.server.port = 9000

\* from_file has fallen back for a file whose database section is in order
\* and whose llm section is none, with AMS_PORT set in the environment.
C30_Witness ==
    /\ ret.op = "from_file"
    /\ ret.file.kind = "loaded"
    /\ CannotBeLoaded(ret.file)
    /\ ret.file.data.yaml = "mapping"
    /\ "database" \in DOMAIN ret.file.data.items
    /\ "AMS_PORT" \in DOMAIN environ
    /\ ret.value.server.port = 9000

(***************************************************************************)
(* The execute endpoint (execute_task) and the framework adapters.         *)
(*                                                                         *)
(* A request is a coroutine on the one asyncio event loop: it runs alone   *)
(* until it suspends.  The registry and Supervisor coroutines and          *)
(* initialize_agent hold no await that suspends, and CrewAIAdapter's       *)
(* execute_agent calls crew.kickoff() synchronously; the one place where   *)
(* execute_task suspends is AutoGenAdapter.execute_agent, at               *)
(* await agent.on_messages.  A request record holds the locals of          *)
(* execute_task, and                                                       *)
(*   pc      "idle", "running" (suspended in execute_agent), "done" or     *)
(*           "raised"                                                      *)
(*   trace   one entry per iteration of the driving loop begun: the agent, *)
(*           whether its executor was called, the ids of the messages      *)
(*           handed to it, how the iteration ended and the ids of the      *)
(*           messages it appended to the session                           *)
(*   terminated_meanwhile   whether terminate_collaboration ran for the    *)
(*           session while this request was suspended                      *)
(***************************************************************************)
NoTask == Text(<<>>, 0)
NoResponse == [status |-> "none"]

IdleRequest ==
    [pc |-> "idle", session_id |-> NeverDrawn, task |-> NoTask,
     agent_execution_order |-> <<>>, messages |-> <<>>, results |-> <<>>,
     trace |-> <<>>, terminated_meanwhile |-> FALSE, response |-> NoResponse]

\* What an agent does when its turn comes: get_adapter or initialize_agent
\* raises, or execute_agent returns a result of status completed or of status
\* error.
ExecutorOutcomes == {"completed", "error"}
AgentRuns == {"initialize raises"} \cup ExecutorOutcomes

\* The dictionary execute_agent returns: AutoGenAdapter puts the content under
\* "response", CrewAIAdapter under "result"; an exception inside execute_agent is
\* caught there and reported as status "error".
execute_agent(framework, outcome) ==
    [content_key |-> IF framework = "autogen" THEN "response" ELSE "result",
     content |-> IF outcome = "completed" THEN Text(<<"answer">>, 6)
                 ELSE IF framework = "autogen"
                     THEN Text(<<"Error executing AutoGen agent: ", "timeout">>, 31 + 7)
                 ELSE Text(<<"Error executing CrewAI agent: ", "timeout">>, 30 + 7),
     status |-> IF outcome = "error" THEN "error" ELSE "completed"]

\* The ids of the messages of a list of message dictionaries.
MessageIds(messages) == {messages[i].message_id : i \in DOMAIN messages}

\* The ids of the messages the session holds in hub `after` behind those it
\* held in hub `before`.
AppendedIds(before, after, session_id) ==
    IF session_id \notin DOMAIN before.sessions \/ session_id \notin DOMAIN after.sessions
        THEN <<>>
    ELSE LET old == before.sessions[session_id].messages
             new == after.sessions[session_id].messages
         IN  [i \in 1..(Len(new) - Len(old)) |-> new[Len(old) + i].message_id]

\* An iteration of the driving loop begins for the agent.
BeginIteration(q, agent, called) ==
    [q EXCEPT !.trace = Append(@, [agent |-> agent.id, called |-> called,
                                   handed |-> IF called THEN MessageIds(q.messages) ELSE {},
                                   outcome |-> "in flight", posted |-> <<>>])]

\* The iteration in progress ends.
EndIteration(q, outcome, posted) ==
    [q EXCEPT !.trace[Len(q.trace)].outcome = outcome,
              !.trace[Len(q.trace)].posted = posted]

\* What a stretch of the driving loop leaves: the hub, the request's locals,
\* whether the loop ran to its end and whether an exception left it.
Suspended(hub, q) == [hub |-> hub, q |-> q, finished |-> FALSE, raised |-> FALSE]
Finished(hub, q) == [hub |-> hub, q |-> q, finished |-> TRUE, raised |-> FALSE]
Propagated(hub, q) == [hub |-> hub, q |-> q, finished |-> FALSE, raised |-> TRUE]

\* A handler that records nothing for a failed agent.
HandleFailure_Silent(hub, q, agent, error) ==
    Suspended(hub, EndIteration(q, "raised", <<>>))

\* The except branch of the loop body: the error goes to the session as a
\* message of the agent; messages is not fetched again.
HandleFailure(hub, q, agent, error) ==
    LET sent == send_message(hub, q.session_id,
                             Text(<<"Error executing agent: ", error>>, 23 + 7),
                             agent.id, agent.name,
                             [type |-> "error", error |-> error, framework |-> agent.framework])
    IN  IF sent.raised THEN Propagated(hub, q)
        ELSE Suspended(sent.hub,
                       EndIteration(q, "raised", AppendedIds(hub, sent.hub, q.session_id)))

\* The loop body behind execute_agent: the result is kept, its content sent as
\* the agent's message, and messages and formatted_history fetched afresh.
AfterExecution(hub, q, agent, execution_result) ==
    LET kept == [q EXCEPT !.results = Append(@, execution_result)]
        sent == send_message(hub, q.session_id, execution_result.content,
                             agent.id, agent.name,
                             [type |-> "agent_response", status |-> execution_result.status,
                              framework |-> agent.framework])
        history == get_session_history(sent.hub, q.session_id)
        formatted == get_formatted_history(history.hub, q.session_id, NoExclude, TRUE, 0)
    IN  IF sent.raised THEN HandleFailure(hub, kept, agent, "missing")
        ELSE Suspended(formatted.hub,
                       EndIteration([kept EXCEPT !.messages = history.value],
                                    execution_result.status,
                                    AppendedIds(hub, formatted.hub, q.session_id)))

RECURSIVE DrivingLoop(_, _, _)
\* for agent_metadata in agent_execution_order, from the iteration behind the
\* last one begun up to the next suspension or the end of the list.  run[id] is
\* what the agent of that id does when its turn comes.
DrivingLoop(hub, q, run) ==
    LET k == Len(q.trace) + 1
        agent == q.agent_execution_order[k]
    IN  IF k > Len(q.agent_execution_order) THEN Finished(hub, q)
        ELSE IF run[agent.id] = "initialize raises"
            THEN LET handled == HandleFailure(hub, BeginIteration(q, agent, FALSE), agent, "timeout")
                 IN  IF handled.raised THEN handled ELSE DrivingLoop(handled.hub, handled.q, run)
        ELSE IF agent.framework = "autogen"
            THEN Suspended(hub, BeginIteration(q, agent, TRUE))
        ELSE LET executed == AfterExecution(hub, BeginIteration(q, agent, TRUE), agent,
                                            execute_agent(agent.framework, run[agent.id]))
             IN  IF executed.raised THEN executed ELSE DrivingLoop(executed.hub, executed.q, run)

\* execute_task up to the driving loop: the session's task and agents, the
\* message history and the transcript, the agents from the registry and their
\* execution order.
ExecutePrelude(sup, agent_registry, session_id) ==
    IF session_id \notin DOMAIN sup.active_sessions
        THEN [raised |-> TRUE, error |-> "SessionNotFoundException", hub |-> sup.hub, q |-> IdleRequest]
    ELSE LET session_info == sup.active_sessions[session_id]
             history == get_session_history(sup.hub, session_id)
             formatted == get_formatted_history(history.hub, session_id, NoExclude, TRUE, 0)
             found == [i \in DOMAIN session_info.agents |->
                          get_agent(agent_registry, session_info.agents[i])]
             ordered == determine_agent_execution_order(found)
         IN  IF history.raised
                 THEN [raised |-> TRUE, error |-> "ValueError", hub |-> sup.hub, q |-> IdleRequest]
             ELSE IF \E i \in DOMAIN found : found[i] = NotFound
                 THEN [raised |-> TRUE, error |-> "AgentNotFoundException", hub |-> formatted.hub,
                       q |-> IdleRequest]
             ELSE IF ordered.status = "RecursionError"
                 THEN [raised |-> TRUE, error |-> "RecursionError", hub |-> formatted.hub,
                       q |-> IdleRequest]
             ELSE [raised |-> FALSE, error |-> "none", hub |-> formatted.hub,
                   q |-> [IdleRequest EXCEPT !.pc = "running",
                                             !.session_id = session_id,
                                             !.task = session_info.task,
                                             !.messages = history.value,
                                             !.agent_execution_order = ordered.order]]

(***************************************************************************)
(* Spec: the API served on one event loop.  Two agents are registered: a   *)
(* writer on AutoGen, and a researcher on CrewAI that depends on it; tasks *)
(* are created, executed and terminated by requests arriving in any order, *)
(* and an execute request suspended in an executor call is resumed when    *)
(* the call returns.                                                       *)
(***************************************************************************)
MaxRequests == 2
MaxDrawn == 8

RegisteredAgents ==
    << RegisteredAgent("a1", "Writer", {"writer"}, "autogen", <<"text_generation">>, Absent),
       RegisteredAgent("a2", "Researcher", {"research"}, "crewai",
                       <<"data_analysis", "text_generation">>, StrDep("a1")) >>

ApiTasks == {Text(<<"Research the data">>, 17)}

LlmAnswers ==
    { JsonAnswer(<<"text_generation">>),
      JsonAnswer(<<"data_analysis", "text_generation">>),
      JsonAnswer(<<"data_analysis">>),
      JsonAnswer(<<"code_execution">>),
      JsonAnswer(<<>>),
      TextAnswer({"analyze"}),
      LlmError }

\* The session ids the requests name: those of the tasks created and one that
\* was never drawn.
TaskIdArguments == DOMAIN active_sessions \cup {NeverDrawn}

\* What the request served last did: the exception it raised, what it
\* returned, or that it is suspended.
Responded(op, session_id, raised, value) ==
    [op |-> op, session_id |-> session_id, raised |-> raised, value |-> value]

\* The hub a handler leaves, installed, when the uuids drawn are in bounds.
HubLeft(hub) ==
    /\ hub.next_uuid <= MaxDrawn + 1
    /\ sessions' = hub.sessions
    /\ next_uuid' = hub.next_uuid

Init ==
    /\ agents = <<>>
    /\ result = NotRun
    /\ registry = RegisteredAgents
    /\ inserted = IdOrder(registry)
    /\ environ = NoEnvironment
    /\ sessions = NoSessions
    /\ active_sessions = NoSessions
    /\ next_uuid = 1
    /\ requests = [r \in 1..MaxRequests |-> IdleRequest]
    /\ ret = NoReturn

\* POST /tasks (create_task)
CreateTask ==
    \E task \in ApiTasks, llm \in LlmAnswers :
        LET task_analysis == analyze_task(task, llm)
            selected_agents == select_agents(registry, task_analysis)
            created == create_collaboration(Supervisor, selected_agents, task)
        IN  /\ IF selected_agents = <<>>
                   THEN /\ ret' = Responded("create_task", NeverDrawn, TRUE, "NoSuitableAgentsException")
                        /\ UNCHANGED <<sessions, next_uuid, active_sessions>>
               ELSE /\ HubLeft(created.sup.hub)
                    /\ active_sessions' = created.sup.active_sessions
                    /\ ret' = Responded("create_task", created.value, created.raised, "created")
            /\ UNCHANGED <<agents, environ, inserted, result, registry, requests>>

\* The state a stretch of the driving loop of request r leaves; at the end of
\* the loop the status of the session is set and the response returned.
LoopLeaves(r, stretch) ==
    /\ HubLeft(stretch.hub)
    /\ IF stretch.raised
           THEN /\ requests' = [requests EXCEPT ![r] = [stretch.q EXCEPT !.pc = "raised"]]
                /\ ret' = Responded("execute_task", stretch.q.session_id, TRUE, "ValueError")
                /\ UNCHANGED active_sessions
       ELSE IF stretch.finished
           THEN /\ active_sessions' = [active_sessions EXCEPT
                                           ![stretch.q.session_id].status = "executed"]
                /\ requests' = [requests EXCEPT ![r] =
                                   [stretch.q EXCEPT !.pc = "done",
                                                     !.response = [status |-> "executed"]]]
                /\ ret' = Responded("execute_task", stretch.q.session_id, FALSE, "executed")
       ELSE /\ requests' = [requests EXCEPT ![r] = stretch.q]
            /\ ret' = Responded("execute_task", stretch.q.session_id, FALSE, "suspended")
            /\ UNCHANGED active_sessions

\* What each agent still to come in the execution order of a request does when
\* its turn comes.
Runs(q) ==
    [{q.agent_execution_order[k].id : k \in (Len(q.trace) + 1)..Len(q.agent_execution_order)}
        -> AgentRuns]

\* POST /tasks/{session_id}/execute (execute_task), from its start to its first
\* suspension or its end.  The request takes the first free record.
ExecuteTask(r) ==
    \E session_id \in TaskIdArguments :
        LET prelude == ExecutePrelude(Supervisor, registry, session_id)
        IN  /\ requests[r].pc = "idle"
            /\ \A earlier \in 1..(r - 1) : requests[earlier].pc # "idle"
            /\ IF prelude.raised
                   THEN /\ HubLeft(prelude.hub)
                        /\ ret' = Responded("execute_task", session_id, TRUE, prelude.error)
                        /\ UNCHANGED <<active_sessions, requests>>
               ELSE \E run \in Runs(prelude.q) :
                        LoopLeaves(r, DrivingLoop(prelude.hub, prelude.q, run))
            /\ UNCHANGED <<agents, environ, inserted, result, registry>>

\* await agent.on_messages returns in the suspended request r and execute_task
\* runs on to its next suspension or its end.
ExecutorReturn(r) ==
    \E outcome \in ExecutorOutcomes :
        LET q == requests[r]
            agent == q.agent_execution_order[Len(q.trace)]
            executed == AfterExecution(Hub, q, agent, execute_agent(agent.framework, outcome))
        IN  /\ q.pc = "running"
            /\ IF executed.raised THEN LoopLeaves(r, executed)
               ELSE \E run \in Runs(executed.q) :
                        LoopLeaves(r, DrivingLoop(executed.hub, executed.q, run))
            /\ UNCHANGED <<agents, environ, inserted, result, registry>>

\* POST /tasks/{session_id}/terminate (terminate_task)
TerminateTask ==
    \E session_id \in TaskIdArguments :
        LET terminated == terminate_collaboration(Supervisor, session_id)
        IN  /\ HubLeft(terminated.sup.hub)
            /\ active_sessions' = terminated.sup.active_sessions
            /\ requests' = [r \in DOMAIN requests |->
                               IF requests[r].pc = "running" /\ requests[r].session_id = session_id
                                      /\ ~terminated.raised
                                   THEN [requests[r] EXCEPT !.terminated_meanwhile = TRUE]
                               ELSE requests[r]]
            /\ ret' = Responded("terminate_task", session_id, terminated.raised,
                                IF terminated.raised THEN "ValueError" ELSE "terminated")
            /\ UNCHANGED <<agents, environ, inserted, result, registry>>

Next ==
    \/ CreateTask
    \/ \E r \in 1..MaxRequests : ExecuteTask(r)
    \/ \E r \in 1..MaxRequests : ExecutorReturn(r)
    \/ TerminateTask

Spec == Init /\ [][Next]_vars

(***************************************************************************)
(* Properties of the execute endpoint (Spec).                              *)
(***************************************************************************)
\* Whether executor calls were made at iteration k of request q.
ExecutorCalled(q, k) == q.trace[k].called

\* C5: in one execute run, the history handed to the executor of the k-th
\* agent holds the message (result or error) the run recorded for every agent
\* whose turn came before, whether that agent succeeded or failed.
C5_HistoryHoldsEarlierMessages ==
    \A r \in DOMAIN requests :
        \A k \in DOMAIN requests[r].trace :
            ExecutorCalled(requests[r], k) =>
                \A j \in 1..(k - 1) :
                    /\ requests[r].trace[j].posted # <<>>
                    /\ Range(requests[r].trace[j].posted) \subseteq requests[r].trace[k].handed

\* Whether a message is tagged as an error: the type "error" of the except
\* branch, or the status "error" an adapter reported.
ErrorTagged(message) ==
    \/ message.metadata["type"] = "error"
    \/ "status" \in DOMAIN message.metadata /\ message.metadata["status"] = "error"

\* Whether iteration k of request q failed: get_adapter or initialize_agent
\* raised, or execute_agent reported an error.
IterationFailed(q, k) == q.trace[k].outcome \in {"raised", "error"}

\* C6: when obtaining the adapter, initializing or executing an agent fails in
\* the driving loop, the run appends exactly one message for that iteration, an
\* error-tagged message of that agent; the loop goes on to the next agent of
\* the execution order; no exception leaves the loop; and a run that ended has
\* taken every agent's turn and answered with status executed.
C6_FailureRecordedRunGoesOn ==
    \A r \in DOMAIN requests :
        LET q == requests[r]
        IN  /\ q.pc # "raised"
            /\ \A k \in DOMAIN q.trace :
                  IterationFailed(q, k) =>
                      /\ Len(q.trace[k].posted) = 1
                      /\ \E i \in DOMAIN sessions[q.session_id].messages :
                            LET message == sessions[q.session_id].messages[i]
                            IN  /\ message.message_id = q.trace[k].posted[1]
                                /\ message.sender_id = q.trace[k].agent
                                /\ ErrorTagged(message)
                      /\ k < Len(q.agent_execution_order) => k < Len(q.trace)
            /\ q.pc = "running" => q.trace[Len(q.trace)].outcome = "in flight"
            /\ q.pc = "done" =>
                  /\ Len(q.trace) = Len(q.agent_execution_order)
                  /\ \A k \in DOMAIN q.trace : q.trace[k].outcome # "in flight"
                  /\ q.response.status = "executed"

\* C6's case: a run that ended, in which the first agent could not be
\* initialized, and the second agent's executor was called and reported an error.
C6_Witness ==
    \E r \in DOMAIN requests :
        /\ requests[r].pc = "done"
        /\ Len(requests[r].trace) > 1
        /\ requests[r].trace[1].outcome = "raised"
        /\ requests[r].trace[2].called
        /\ requests[r].trace[2].outcome = "error"

\* C7: no two executor calls of one session are in flight at the same time,
\* whatever the interleaving of the requests.
C7_OneExecutorPerSession ==
    \A r1, r2 \in DOMAIN requests :
        (r1 # r2 /\ requests[r1].pc = "running" /\ requests[r2].pc = "running")
            => requests[r1].session_id # requests[r2].session_id

\* C8: when terminate_collaboration has completed for a session while a driving
\* loop of the session is suspended in an executor call, the call is not
\* interrupted, and once it has returned the loop takes no further agent's turn.
C8_NoAgentAfterTermination ==
    [][\A r \in DOMAIN requests :
          (requests[r].pc = "running" /\ requests[r].terminated_meanwhile) =>
              /\ requests'[r].pc = "running" => requests'[r] = requests[r]
              /\ Len(requests'[r].trace) = Len(requests[r].trace)]_vars

\* C9: the status of a collaboration moves only along Active -> Executing ->
\* Executed, or to Terminated from Active or Executing: it is Executing while a
\* driving loop of the session runs, Executed is entered from Executing only,
\* and a status of Executed or Terminated is never changed.
C9_StatusMachine ==
    [][\A session_id \in DOMAIN active_sessions :
          LET old == active_sessions[session_id].status
              new == active_sessions'[session_id].status
          IN  /\ old \in {"executed", "terminated"} => new = old
              /\ (new = "executed" /\ old # new) => old = "executing"
              /\ (new = "executing" /\ old # new) => old = "active"
              /\ (new = "terminated" /\ old # new) => old \in {"active", "executing"}
              /\ (\E r \in DOMAIN requests' :
                     /\ requests'[r].pc = "running"
                     /\ requests'[r].session_id = session_id)
                     => new \in {"executing", "terminated"}]_vars

(***************************************************************************)
(* SpecApi: the API of Spec together with the other operations a caller    *)
(* reaches on the same components: DELETE /agents/{agent_id}, GET          *)
(* /tasks/{session_id}, POST /tasks/{session_id}/messages, and the Hub's   *)
(* delete_session.                                                         *)
(***************************************************************************)
\* SupervisorManager.monitor_collaboration: the status of the Supervisor's
\* record and the number of messages of the Hub's history.  (last_update is
\* the timestamp of the last message; timestamps are not part of the state.)
monitor_collaboration(sup, session_id) ==
    IF session_id \notin DOMAIN sup.active_sessions
        THEN [raised |-> TRUE, value |-> [error |-> "ValueError: session not found"]]
    ELSE LET messages == get_session_history(sup.hub, session_id)
         IN  IF messages.raised THEN [raised |-> TRUE, value |-> messages.value]
             ELSE [raised |-> FALSE,
                   value |-> [session_id |-> session_id,
                              status |-> sup.active_sessions[session_id].status,
                              message_count |-> Len(messages.value)]]

\* The uuids drawn at most while the API is served.
MaxServed == 5

\* The agent ids DELETE /agents/{agent_id} is called with.
AgentIdArguments == {"a1", "a2"}

\* The body of a POST /tasks/{session_id}/messages: notes of the writer, longer
\* than max_chars_per_message.
PostedMessage ==
    [content |-> Text(<<"notes">>, max_chars_per_message + 1),
     sender_id |-> "a1", sender_name |-> "Writer", metadata |-> NoMetadata]

\* The session ids delete_session is called with.
HeldSessionIds == DOMAIN sessions \cup {NeverDrawn}

\* DELETE /agents/{agent_id} (delete_agent)
DeleteAgent ==
    \E agent_id \in AgentIdArguments :
        LET deleted == delete_agent(registry, agent_id)
        IN  /\ registry' = deleted.registry
            /\ ret' = Responded("delete_agent", NeverDrawn, ~deleted.value,
                                IF deleted.value THEN "deleted" ELSE "AgentNotFoundException")
            /\ UNCHANGED <<agents, environ, inserted, result, sessions, active_sessions,
                           next_uuid, requests>>

\* GET /tasks/{session_id} (get_task_status)
GetTaskStatus ==
    \E session_id \in TaskIdArguments :
        LET status == monitor_collaboration(Supervisor, session_id)
        IN  /\ ret' = Responded("get_task_status", session_id, status.raised, status.value)
            /\ UNCHANGED <<agents, environ, inserted, result, registry, sessions,
                           active_sessions, next_uuid, requests>>

\* POST /tasks/{session_id}/messages (send_message)
PostMessage ==
    \E session_id \in TaskIdArguments :
        LET sent == send_message(Hub, session_id, PostedMessage.content,
                                 PostedMessage.sender_id, PostedMessage.sender_name,
                                 PostedMessage.metadata)
        IN  /\ HubLeft(sent.hub)
            /\ next_uuid' <= MaxServed + 1
            /\ ret' = Responded("send_message", session_id, sent.raised,
                                IF sent.raised THEN "ValueError" ELSE "sent")
            /\ UNCHANGED <<agents, environ, inserted, result, registry, active_sessions,
                           requests>>

\* CommunicationHub.delete_session, called on the hub the API serves.
DeleteSession ==
    \E session_id \in HeldSessionIds :
        LET deleted == delete_session(Hub, session_id)
        IN  /\ HubLeft(deleted.hub)
            /\ ret' = Responded("delete_session", session_id, FALSE,
                                IF deleted.value THEN "deleted" ELSE "absent")
            /\ UNCHANGED <<agents, environ, inserted, result, registry, active_sessions,
                           requests>>

\* A step of the API of Spec that stays within MaxServed uuids.
ServeCreateTask == CreateTask /\ next_uuid' <= MaxServed + 1
ServeExecuteTask(r) == ExecuteTask(r) /\ next_uuid' <= MaxServed + 1
ServeExecutorReturn(r) == ExecutorReturn(r) /\ next_uuid' <= MaxServed + 1
ServeTerminateTask == TerminateTask /\ next_uuid' <= MaxServed + 1

NextApi ==
    \/ ServeCreateTask
    \/ \E r \in 1..MaxRequests : ServeExecuteTask(r)
    \/ \E r \in 1..MaxRequests : ServeExecutorReturn(r)
    \/ ServeTerminateTask
    \/ DeleteAgent
    \/ GetTaskStatus
    \/ PostMessage
    \/ DeleteSession

SpecApi == Init /\ [][NextApi]_vars

(***************************************************************************)
(* Properties of the served API (SpecApi).                                 *)
(***************************************************************************)
\* C38: every session id of the Supervisor's active_sessions is held by the
\* Hub, and monitor_collaboration on a session the Supervisor knows does not
\* fail and reports as message_count the length of the Hub's log of it.
C38_SupervisorSessionsHeldByHub ==
    /\ \A session_id \in DOMAIN active_sessions : session_id \in DOMAIN sessions
    /\ (ret.op = "get_task_status" /\ ret.session_id \in DOMAIN active_sessions) =>
           /\ ~ret.raised
           /\ ret.value.message_count = Len(sessions[ret.session_id].messages)

\* The agents recorded as participants of the session that the registry no
\* longer holds.
DeletedParticipants(session_id) ==
    {active_sessions[session_id].agents[i] : i \in DOMAIN active_sessions[session_id].agents}
        \ {registry[i].id : i \in DOMAIN registry}

\* C39: an execute_task for a session one of whose participants was deleted
\* from the registry fails with AgentNotFoundException before an executor is
\* invoked, and leaves the message log of the session and the Supervisor's
\* record of it as they were.
C39_DeletedParticipantFailsCleanly ==
    [][(/\ ret'.op = "execute_task"
        /\ \A r \in DOMAIN requests : requests[r].pc = "running" => requests'[r] = requests[r]
        /\ ret'.session_id \in DOMAIN active_sessions \cap DOMAIN sessions
        /\ DeletedParticipants(ret'.session_id) # {})
           => /\ ret'.raised
              /\ ret'.value = "AgentNotFoundException"
              /\ requests' = requests
              /\ sessions' = sessions
              /\ active_sessions' = active_sessions]_vars

====
